---------------------------- MODULE Spec2Model ----------------------------
(***************************************************************************)
(* A model of the Chime TTS helpers:                                       *)
(*   custom_components/chime_tts/helpers/media_player.py                   *)
(*     the playback sync waiters and the volume fade controller            *)
(*   custom_components/chime_tts/helpers/helpers.py                        *)
(*     the FFmpeg transcoder invoker, the tempo stages, the audio mixer    *)
(*     and the message parser                                              *)
(* Each subsystem has its own specification over the shared variables:     *)
(*   SpecWait   the two polling loops                                      *)
(*   SpecFade   async_set_volume_for_media_players                         *)
(*   SpecConv   async_ffmpeg_convert_from_audio_segment                    *)
(*   SpecFile   ffmpeg_convert_from_file on any input path                 *)
(*   SpecTempo  add_atempo_values_to_ffmpeg_args_string                    *)
(*   SpecSpeed  the speed and pitch changes that call it                   *)
(*   SpecMix    combine_audio and overlay                                  *)
(*   SpecParse  parse_message                                              *)
(***************************************************************************)
EXTENDS Integers, Sequences, FiniteSets, TLC

VARIABLES
    hass_states,         \* hass.states: entity id -> [present, state, volume_level]
    media_player_dicts,  \* the device records passed to the call
    pc,                  \* position of the running coroutine
    condition,           \* the predicate closure: [kind, target]
    timeout_arg,         \* the timeout argument, in tenths of a second
    timeout,             \* the local budget, an IEEE-754 double
    still_waiting,       \* list of entity ids not yet satisfied
    volume_reached,      \* flag of async_wait_until_media_player_volume_level
    ret,                 \* the value returned
    rounds,              \* poll rounds performed
    sleeps,              \* time.sleep calls performed
    evaluated,           \* entity ids the predicate was evaluated for
    falseEvals,          \* number of evaluations that returned False
    satAtCall,           \* entity ids satisfying the predicate at call time
    satSeen,             \* entity ids that satisfied it while some round ran
    volume_key,          \* fade: the key of the target volume, or a number
    fade_duration,       \* fade: the duration argument, in milliseconds
    fade_steps,          \* fade: the number of steps
    step,                \* fade: the step being run (from 0)
    dev,                 \* fade: position in media_player_dicts (from 1)
    cmds,                \* fade: volumes sent to each device by this call
    c0,                  \* fade: current_volume read for each device at step 0
    failed,              \* fade: positions of devices with a failed command
    exc,                 \* fade: the exception the call raised, or "none"
    reused,              \* fade: the records were used by an earlier fade
    slept,               \* fade: the durations of the sleeps of this call
    files,               \* the file system: path -> data of the file
    conv,                \* the transcoder calls: call id -> its locals
    file_call,           \* ffmpeg_convert_from_file called on its own: its locals
    atempo,              \* add_atempo_values_to_ffmpeg_args_string: its locals
    mix,                 \* combine_audio: its arguments and result
    parse                \* parse_message: its locals

envVars == <<hass_states, media_player_dicts>>

waitVars == <<condition, timeout_arg, timeout, still_waiting, volume_reached,
              ret, rounds, evaluated, falseEvals, satAtCall, satSeen>>

fadeVars == <<volume_key, fade_duration, fade_steps, step, dev, cmds, c0,
              failed, exc, reused, slept>>

convVars == <<files, conv, file_call>>

pureVars == <<atempo, mix, parse>>

vars == <<envVars, pc, sleeps, waitVars, fadeVars, convVars, pureVars>>

(***************************************************************************)
(* Bounds of the model.                                                    *)
(***************************************************************************)
MaxDevices == 2
MaxTimeoutTenths == 10
MaxTempoPercent == 500
MaxAudioMs == 4
MaxEntries == 2

Entities == 1..MaxDevices

(***************************************************************************)
(* IEEE-754 binary64 arithmetic on the timeout budget.  A double d is kept *)
(* as the exact integer |d| * 2^56 in two limbs, hi * 2^28 + lo, with its  *)
(* sign.  Every double >= 2^-4 in magnitude is a multiple of 2^-56, and so *)
(* is every difference of two such doubles; a result is rounded to the     *)
(* 53-bit grid of its binade, ties to even, as the hardware does.          *)
(***************************************************************************)
LimbBase == 2^28

\* the spacing of doubles (in units of 2^-56) in the binade of hi * 2^28
Ulp(hi) ==
    IF hi < 33554432 THEN 1
    ELSE IF hi < 67108864 THEN 2
    ELSE IF hi < 134217728 THEN 4
    ELSE IF hi < 268435456 THEN 8
    ELSE IF hi < 536870912 THEN 16
    ELSE IF hi < 1073741824 THEN 32
    ELSE 64

\* round hi * 2^28 + lo + num/den (0 <= num < den) to the nearest double
RoundNearestEven(neg, hi, lo, num, den) ==
    LET g    == Ulp(hi)
        r    == lo % g
        base == lo - r
        twice == 2 * (r * den + num)
        up   == \/ twice > g * den
                \/ twice = g * den /\ ((base \div g) % 2 = 1)
        nlo  == IF up THEN base + g ELSE base
    IN  IF nlo = LimbBase
        THEN [neg |-> neg, hi |-> hi + 1, lo |-> 0]
        ELSE [neg |-> neg, hi |-> hi, lo |-> nlo]

\* the double nearest to k / 10 (what the literal k/10 denotes in Python)
DoubleOfTenths(k) ==
    LET dh == k * 134217728          \* k * 2^55 = dh * 2^28
        qh == dh \div 5
        rh == dh % 5
        ql == (rh * LimbBase) \div 5
        rl == (rh * LimbBase) % 5
    IN  RoundNearestEven(FALSE, qh, ql, rl, 5)

FPos(d) == ~d.neg /\ (d.hi > 0 \/ d.lo > 0)

\* |a| >= |b| on the limbs
MagGeq(a, b) == a.hi > b.hi \/ (a.hi = b.hi /\ a.lo >= b.lo)

\* the exact difference of magnitudes x - y (x >= y), then rounded
MagSub(neg, x, y) ==
    LET borrow == IF x.lo < y.lo THEN 1 ELSE 0
        lo     == x.lo - y.lo + borrow * LimbBase
        hi     == x.hi - y.hi - borrow
    IN  RoundNearestEven(neg, hi, lo, 0, 1)

\* a - b for doubles a >= 0 and b >= 0
FSub(a, b) ==
    IF MagGeq(a, b) THEN MagSub(FALSE, a, b) ELSE MagSub(TRUE, b, a)

\* delay = 0.2
delay == DoubleOfTenths(2)

\* round(v, 3) of a volume kept in units of 0.0001: nearest multiple of 10
Round3(v) ==
    LET r == v % 10
        b == v - r
    IN  IF r > 5 \/ (r = 5 /\ (b \div 10) % 2 = 1) THEN b + 10 ELSE b

(***************************************************************************)
(* hass.states.  An entity that is not registered has no State object      *)
(* (hass.states.get returns None).  Volumes are in units of 0.0001.        *)
(***************************************************************************)
Absent == [present |-> FALSE, state |-> "idle", volume_level |-> 0]

Live(e) == hass_states[e].present

\* The values the attribute read by a predicate kind can take.  The other
\* attribute is not read during the call and is kept at its default.
LiveStates(kind) ==
    IF kind \in {"state_is", "state_not"}
    THEN {[present |-> TRUE, state |-> s, volume_level |-> 0] :
             s \in {"idle", "playing"}}
    ELSE IF kind = "volume_is"
    THEN {[present |-> TRUE, state |-> "idle", volume_level |-> v] :
             v \in {0, 5000}}
    ELSE {[present |-> TRUE, state |-> "idle", volume_level |-> v] :
             v \in {0, 5000, 5004}}

\* the predicate closures of the three specializations, and the volume-level
\* waiter's target
Conditions ==
    {[kind |-> "state_is", target_state |-> "playing", target_volume |-> 0],
     [kind |-> "state_not", target_state |-> "playing", target_volume |-> 0],
     [kind |-> "volume_is", target_state |-> "", target_volume |-> 5000],
     [kind |-> "volume_level", target_state |-> "", target_volume |-> 5000]}

\* the record async_get_media_player_dict builds; "volume_steps" is a key
\* the fade adds later (has_volume_steps: the key is in the dict)
MediaPlayerDict(e, initial, playback) ==
    [entity_id |-> e, initial_volume_level |-> initial,
     playback_volume_level |-> playback, volume_steps |-> << >>,
     has_volume_steps |-> FALSE]

\* the variables of a subsystem that is not running
NoRead == 0 - 2

FadeIdle ==
    /\ volume_key = [name |-> "", value |-> 0]
    /\ fade_duration = 0
    /\ fade_steps = 0
    /\ step = 0
    /\ dev = 0
    /\ cmds = << >>
    /\ c0 = << >>
    /\ failed = {}
    /\ exc = "none"
    /\ reused = FALSE
    /\ slept = << >>

WaitIdle ==
    /\ condition = [kind |-> "", target_state |-> "", target_volume |-> 0]
    /\ timeout_arg = 0
    /\ timeout = DoubleOfTenths(0)
    /\ still_waiting = << >>
    /\ volume_reached = FALSE
    /\ ret = FALSE
    /\ rounds = 0
    /\ evaluated = {}
    /\ falseEvals = 0
    /\ satAtCall = {}
    /\ satSeen = {}

(***************************************************************************)
(* The transcoder invoker: its values.                                     *)
(* A path is the sequence of the pieces of its text, so that str.replace   *)
(* replaces runs of pieces. An argument string is the sequence of its      *)
(* whitespace-separated tokens with the number of blanks before them. An   *)
(* AudioSegment is the source it carries the sound of, whether FFmpeg has  *)
(* converted it, and whether it has been decoded from a file.              *)
(***************************************************************************)
ConvCalls == {1, 2}

None == [src |-> 0, converted |-> FALSE, loaded |-> FALSE]

AudioSegment(b) == [src |-> b, converted |-> FALSE, loaded |-> FALSE]

\* the values of the ffmpeg_args argument
ArgString(tokens, lead) == [tokens |-> tokens, lead |-> lead]

EmptyArgs == ArgString(<< >>, 0)

ArgStrings ==
    { EmptyArgs,
      ArgString(<<"-af", "atempo=0.5">>, 0),
      ArgString(<<"-f", "wav">>, 0),
      ArgString(<<"-f", "mp3">>, 0),
      ArgString(<<"-y", "-f", "mp3">>, 0),
      ArgString(<<"-f">>, 0),
      ArgString(<<"-f">>, 1),
      ArgString(<<"-y", "-f">>, 0) }

\* the values of the folder argument
Folders == { << >>, <<"scratch">> }

RECURSIVE TextLen(_)
\* len() of the text made of the pieces
TextLen(pieces) ==
    IF pieces = << >> THEN 0 ELSE Len(Head(pieces)) + TextLen(Tail(pieces))

\* len(ffmpeg_args): the blanks before, the tokens, one blank between two
ArgLen(args) ==
    IF args.tokens = << >>
    THEN args.lead
    ELSE args.lead + TextLen(args.tokens) + Len(args.tokens) - 1

\* `temp_filename = "temp_segment.mp3"`
temp_filename == <<"temp_segment", ".", "mp3">>

\* f"{folder}/{temp_filename}"
FullPath(folder, file_name) == folder \o <<"/">> \o file_name

\* what ffmpeg_convert_from_file returns: False, or a path
False == [ok |-> FALSE, path |-> << >>]

Str(path) == [ok |-> TRUE, path |-> path]

\* the file system
NoFiles == [q \in {} |-> None]

Exists(fs, path) == path \in DOMAIN fs

WriteFile(fs, path, data) ==
    [q \in DOMAIN fs \cup {path} |-> IF q = path THEN data ELSE fs[q]]

RemoveFile(fs, path) == [q \in DOMAIN fs \ {path} |-> fs[q]]

\* the locals of a call that has not been made
IdleCall ==
    [pc |-> "idle", audio_segment |-> None, ffmpeg_args |-> EmptyArgs,
     folder |-> << >>, temp_audio_file |-> << >>,
     converted_audio_file |-> False, ret_val |-> None, logged |-> FALSE,
     exit |-> "none", exc |-> "none"]

ConvIdle ==
    /\ files = NoFiles
    /\ conv = [c \in ConvCalls |-> IdleCall]
    /\ file_call = [pc |-> "idle"]

\* the functions that have not been called
PureIdle ==
    /\ atempo = [pc |-> "idle"]
    /\ mix = [pc |-> "idle"]
    /\ parse = [pc |-> "idle"]

\* condition(media_player_dict) of the running specialization
Condition(e) ==
    IF condition.kind = "state_is"
    THEN hass_states[e].state = condition.target_state
    ELSE IF condition.kind = "state_not"
    THEN hass_states[e].state # condition.target_state
    ELSE hass_states[e].volume_level = condition.target_volume

EntityIds(dicts) == {dicts[i].entity_id : i \in 1..Len(dicts)}

(***************************************************************************)
(* _async_wait_until_media_players                                         *)
(***************************************************************************)
\* (mutant) a validation that looks at the first entity id only
AllResolveFirstOnly(dicts) == Len(dicts) = 0 \/ Live(dicts[1].entity_id)

\* the validation loop: every entity id resolves to a State object
AllResolve(dicts) == \A i \in 1..Len(dicts) : Live(dicts[i].entity_id)

\* list.index(x): the first position holding x
FirstIndex(s, x) == CHOOSE i \in 1..Len(s) : s[i] = x /\ \A j \in 1..(i - 1) : s[j] # x

\* del s[i]
DelAt(s, i) == [j \in 1..(Len(s) - 1) |-> IF j < i THEN s[j] ELSE s[j + 1]]

\* One pass of `for media_player_dict in still_waiting`, with the deletions
\* the body makes in the list being iterated.  A Python list iterator keeps
\* the position of the next element: i is that position (1-based), and the
\* loop ends when it passes the current end of the list.
RECURSIVE ForLoop(_, _, _, _)
ForLoop(sw, i, seen, nfalse) ==
    IF i > Len(sw)
    THEN [still_waiting |-> sw, evaluated |-> seen, nfalse |-> nfalse]
    ELSE IF Condition(sw[i])
         THEN ForLoop(DelAt(sw, FirstIndex(sw, sw[i])), i + 1,
                      seen \cup {sw[i]}, nfalse)
         ELSE ForLoop(sw, i + 1, seen \cup {sw[i]}, nfalse + 1)

\* (mutant) a budget decremented by half the poll interval
DecrementHalfDelay(t) == FSub(t, DoubleOfTenths(1))

\* timeout = timeout - delay
Decrement(t) == FSub(t, delay)

WaitValidate ==
    /\ pc = "call"
    /\ condition.kind # "volume_level"
    /\ satAtCall' = {e \in EntityIds(media_player_dicts) : Live(e) /\ Condition(e)}
    /\ IF Len(media_player_dicts) = 0 \/ ~AllResolve(media_player_dicts)
       THEN /\ ret' = FALSE
            /\ pc' = "done"
            /\ UNCHANGED still_waiting
       ELSE /\ still_waiting' = [i \in 1..Len(media_player_dicts) |->
                                    media_player_dicts[i].entity_id]
            /\ pc' = "loop"
            /\ UNCHANGED ret
    /\ UNCHANGED <<hass_states, media_player_dicts, condition, timeout_arg,
                   timeout, volume_reached, rounds, sleeps, evaluated,
                   falseEvals, satSeen>>
    /\ UNCHANGED <<fadeVars, convVars, pureVars>>

WaitRound ==
    /\ pc = "loop"
    /\ condition.kind # "volume_level"
    /\ Len(still_waiting) > 0 /\ FPos(timeout)
    /\ LET r == ForLoop(still_waiting, 1, {}, 0)
       IN  /\ still_waiting' = r.still_waiting
           /\ evaluated' = evaluated \cup r.evaluated
           /\ falseEvals' = falseEvals + r.nfalse
           /\ pc' = IF Len(r.still_waiting) > 0 THEN "sleep" ELSE "loop"
    /\ satSeen' = satSeen \cup {e \in EntityIds(media_player_dicts) : Condition(e)}
    /\ timeout' = Decrement(timeout)
    /\ rounds' = rounds + 1
    /\ UNCHANGED <<hass_states, media_player_dicts, condition, timeout_arg,
                   volume_reached, ret, sleeps, satAtCall>>
    /\ UNCHANGED <<fadeVars, convVars, pureVars>>

\* await hass.async_add_executor_job(time.sleep, delay): the coroutine is
\* suspended and the devices report whatever they do meanwhile
WaitSleep ==
    /\ pc = "sleep"
    /\ condition.kind # "volume_level"
    /\ hass_states' \in [Entities -> LiveStates(condition.kind) \cup {Absent}]
    /\ \A e \in Entities : hass_states'[e].present = hass_states[e].present
    /\ sleeps' = sleeps + 1
    /\ pc' = "loop"
    /\ UNCHANGED <<media_player_dicts, condition, timeout_arg, timeout,
                   still_waiting, volume_reached, ret, rounds, evaluated,
                   falseEvals, satAtCall, satSeen>>
    /\ UNCHANGED <<fadeVars, convVars, pureVars>>

WaitReturn ==
    /\ pc = "loop"
    /\ condition.kind # "volume_level"
    /\ ~(Len(still_waiting) > 0 /\ FPos(timeout))
    /\ ret' = (Len(still_waiting) = 0)
    /\ pc' = "done"
    /\ UNCHANGED <<hass_states, media_player_dicts, condition, timeout_arg,
                   timeout, still_waiting, volume_reached, rounds, sleeps,
                   evaluated, falseEvals, satAtCall, satSeen>>
    /\ UNCHANGED <<fadeVars, convVars, pureVars>>

(***************************************************************************)
(* async_wait_until_media_player_volume_level                              *)
(***************************************************************************)
\* (mutant) a round in which a device missing from the registry counts as
\* off target
VolumeReachedAllRegistered ==
    \A i \in 1..Len(media_player_dicts) :
        LET e == media_player_dicts[i].entity_id
        IN  /\ Live(e)
            /\ Round3(hass_states[e].volume_level) = Round3(condition.target_volume)

\* the for loop of one round: False as soon as one live device is off target
VolumeReached ==
    \A i \in 1..Len(media_player_dicts) :
        LET e == media_player_dicts[i].entity_id
        IN  Live(e) =>
                Round3(hass_states[e].volume_level) = Round3(condition.target_volume)

\* timeout = timeout - delay
LevelDecrement(t) == FSub(t, delay)

LevelRound ==
    /\ pc \in {"call", "loop"}
    /\ condition.kind = "volume_level"
    /\ ~volume_reached /\ FPos(timeout)
    /\ volume_reached' = VolumeReached
    /\ rounds' = rounds + 1
    /\ evaluated' = evaluated \cup {e \in EntityIds(media_player_dicts) : Live(e)}
    /\ IF VolumeReached
       THEN /\ ret' = TRUE
            /\ pc' = "done"
       ELSE /\ pc' = "sleep"
            /\ UNCHANGED ret
    /\ UNCHANGED <<hass_states, media_player_dicts, condition, timeout_arg,
                   timeout, still_waiting, sleeps, falseEvals, satAtCall,
                   satSeen>>
    /\ UNCHANGED <<fadeVars, convVars, pureVars>>

\* the sleep of a round that did not reach the target, then the decrement
LevelSleep ==
    /\ pc = "sleep"
    /\ condition.kind = "volume_level"
    /\ hass_states' \in [Entities -> LiveStates(condition.kind) \cup {Absent}]
    /\ \A e \in Entities : hass_states'[e].present = hass_states[e].present
    /\ sleeps' = sleeps + 1
    /\ timeout' = LevelDecrement(timeout)
    /\ pc' = "loop"
    /\ UNCHANGED <<media_player_dicts, condition, timeout_arg, still_waiting,
                   volume_reached, ret, rounds, evaluated, falseEvals,
                   satAtCall, satSeen>>
    /\ UNCHANGED <<fadeVars, convVars, pureVars>>

LevelReturn ==
    /\ pc \in {"call", "loop"}
    /\ condition.kind = "volume_level"
    /\ ~(~volume_reached /\ FPos(timeout))
    /\ ret' = volume_reached
    /\ pc' = "done"
    /\ UNCHANGED <<hass_states, media_player_dicts, condition, timeout_arg,
                   timeout, still_waiting, volume_reached, rounds, sleeps,
                   evaluated, falseEvals, satAtCall, satSeen>>
    /\ UNCHANGED <<fadeVars, convVars, pureVars>>

InitWait ==
    /\ \E n \in 0..MaxDevices :
         /\ media_player_dicts = [i \in 1..n |-> MediaPlayerDict(i, 0, -1)]
         /\ condition \in Conditions
         /\ hass_states \in [Entities -> LiveStates(condition.kind) \cup {Absent}]
         /\ \A e \in Entities : e > n => hass_states[e] = Absent
    /\ timeout_arg \in 0..MaxTimeoutTenths
    /\ timeout = DoubleOfTenths(timeout_arg)
    /\ pc = "call"
    /\ still_waiting = << >>
    /\ volume_reached = FALSE
    /\ ret = FALSE
    /\ rounds = 0
    /\ sleeps = 0
    /\ evaluated = {}
    /\ falseEvals = 0
    /\ satAtCall = {}
    /\ satSeen = {}
    /\ FadeIdle
    /\ ConvIdle
    /\ PureIdle

NextWait ==
    \/ WaitValidate
    \/ WaitRound
    \/ WaitSleep
    \/ WaitReturn
    \/ LevelRound
    \/ LevelSleep
    \/ LevelReturn

SpecWait == InitWait /\ [][NextWait]_vars

(***************************************************************************)
(* Properties of the waiters (checked under SpecWait).                     *)
(***************************************************************************)
IsWaitUntil == condition.kind # "volume_level"

\* a non-empty list of resolvable devices and a timeout > 0
WaitPre ==
    /\ IsWaitUntil
    /\ Len(media_player_dicts) >= 1
    /\ AllResolve(media_player_dicts)
    /\ timeout_arg > 0

\* ceil(timeout / 0.2), the timeout being timeout_arg tenths of a second
CeilRounds == (timeout_arg + 1) \div 2

\* no device was ever seen to satisfy the condition
NeverSatisfied ==
    IF IsWaitUntil THEN satSeen = {} /\ satAtCall = {} ELSE ~volume_reached

\* C1: for a non-empty list of resolvable devices and a timeout > 0 the call
\* returns True if and only if every device satisfied the predicate in some
\* poll round that started while budget remained (so N >= 2 devices that all
\* satisfy it from the first round on give True even with one round).
C1_TrueIffAllSatisfied ==
    (pc = "done" /\ WaitPre) =>
        (ret = TRUE <=> EntityIds(media_player_dicts) \subseteq satSeen)

\* C2: when the predicate is already true for every device at its first
\* evaluation, the call returns True without performing any sleep, for any
\* number of devices >= 1.
C2_AlwaysTrueNoSleep ==
    (WaitPre /\ satAtCall = EntityIds(media_player_dicts) /\ falseEvals = 0) =>
        /\ sleeps = 0
        /\ pc = "done" => ret = TRUE

\* C3 as stated: the loops perform at most ceil(timeout / 0.2) rounds
\* (timeout = 1.0 s gives 5 rounds) and then return False when no device
\* ever satisfies the condition.
C3_AtMostCeilRounds ==
    /\ rounds <= CeilRounds
    /\ (pc = "done" /\ NeverSatisfied) => ret = FALSE

\* C3 amended: both loops terminate; the budget is decremented in binary
\* floating point, so they perform at most ceil(timeout / 0.2) + 1 rounds
\* (never fewer than ceil(timeout / 0.2) when no device ever satisfies the
\* condition), and then return False.
C3_TerminatesWithinOneExtraRound ==
    /\ rounds <= CeilRounds + 1
    /\ pc # "done" => ENABLED NextWait
    /\ (pc = "done" /\ NeverSatisfied) => ret = FALSE
    /\ (pc = "done" /\ NeverSatisfied /\ Len(media_player_dicts) >= 1
          /\ AllResolve(media_player_dicts)) => rounds >= CeilRounds

\* a timeout of 1.0 s whose budget lasted six rounds with no device ever
\* satisfying the condition
C3_Witness ==
    /\ pc = "done" /\ NeverSatisfied /\ ret = FALSE
    /\ Len(media_player_dicts) >= 1 /\ AllResolve(media_player_dicts)
    /\ timeout_arg = 10 /\ rounds = 6

\* C4: if any device id does not resolve to a live device at call time, the
\* call returns False immediately: the predicate is evaluated for no device
\* and no sleep is performed.
C4_UnresolvableFailsFast ==
    (IsWaitUntil /\ \E i \in 1..Len(media_player_dicts) :
                        ~hass_states[media_player_dicts[i].entity_id].present) =>
        /\ evaluated = {} /\ sleeps = 0 /\ rounds = 0
        /\ pc \in {"call", "done"}
        /\ pc = "done" => ret = FALSE

\* a resolvable device that satisfies the predicate, listed before an
\* unresolvable one, and the call has returned
C4_Witness ==
    /\ pc = "done" /\ IsWaitUntil /\ timeout_arg > 0
    /\ Len(media_player_dicts) = 2
    /\ Live(media_player_dicts[1].entity_id)
    /\ Condition(media_player_dicts[1].entity_id)
    /\ ~Live(media_player_dicts[2].entity_id)
    /\ ret = FALSE

(***************************************************************************)
(* async_set_volume_for_media_players                                      *)
(*                                                                         *)
(* Volumes are integers in units of 0.0001.  An entry of "volume_steps" is *)
(* the exact rational num/den of current_volume + volume_step * i; the     *)
(* code computes it in binary floating point, whose error (about 1e-16)    *)
(* vanishes in round(x, 4) as long as x is no rounding tie, which the      *)
(* volumes and step counts drawn here never produce.                       *)
(***************************************************************************)
TRANSITION_STEP_MS == 500

FadeVolumes == {0, 5000}
PlaybackVolumes == {-1, 5000}
FadeDurations == {0, 400, 1000, 1500}
VolumeKeys ==
    {[name |-> "initial_volume_level", value |-> 0],
     [name |-> "playback_volume_level", value |-> 0],
     [name |-> "", value |-> 0]}

CeilDiv(a, b) == (a + b - 1) \div b

\* fade_steps = math.ceil((fade_duration*1000)/TRANSITION_STEP_MS)
\*              if fade_duration > 0 else 1
FadeSteps(duration_ms) ==
    IF duration_ms > 0 THEN CeilDiv(duration_ms, TRANSITION_STEP_MS) ELSE 1

\* media_player_dict.get(str(volume_key), volume_key)
TargetVolume(dict, key) ==
    IF key.name = "initial_volume_level" THEN dict.initial_volume_level
    ELSE IF key.name = "playback_volume_level" THEN dict.playback_volume_level
    ELSE key.value

\* round(max(x, 0), 4) of x = num/den, ties to even
Round4Max0(num, den) ==
    IF num <= 0 THEN 0
    ELSE LET q == num \div den
             r == num % den
         IN  IF 2 * r > den \/ (2 * r = den /\ q % 2 = 1) THEN q + 1 ELSE q

\* the list built on the first step: current_volume + volume_step * i for
\* i in range(1, fade_steps), volume_step = (target - current) / fade_steps
VolumeSteps(current, target, n) ==
    [i \in 1..(n - 1) |-> [num |-> current * n + (target - current) * i,
                           den |-> n]]

\* (mutant) a sentinel test that never matches
SkipUnchangedNever(target) == FALSE

\* `if target_volume == -1: continue`
SkipUnchanged(target) == target = -1

\* `if target_volume == current_volume and step == 0: continue`
SkipAtTarget(target, current, s) == target = current /\ s = 0

\* volume_steps[step] if len(volume_steps) > step else target_volume,
\* clamped and rounded (step counts from 0, sequences from 1)
NewVolume(dict, s, target) ==
    IF Len(dict.volume_steps) > s
    THEN Round4Max0(dict.volume_steps[s + 1].num, dict.volume_steps[s + 1].den)
    ELSE Round4Max0(target, 1)

\* what a blocking volume_set call may do: the device takes the volume and
\* reports it, or the call raises and the reported volume stays
Outcomes == {"ok", "raises"}

\* hass.states after a volume_set call for entity e
AfterVolumeSet(e, volume, outcome) ==
    IF outcome = "ok"
    THEN [hass_states EXCEPT ![e].volume_level = volume]
    ELSE hass_states

\* the position after the inner loop body ran for device `dev`
FadeAdvance ==
    IF dev < Len(media_player_dicts)
    THEN /\ dev' = dev + 1
         /\ pc' = pc
         /\ UNCHANGED step
    ELSE /\ dev' = 1
         /\ UNCHANGED step
         /\ pc' = IF pc = "fade" /\ step # fade_steps - 1
                  THEN "fade_sleep" ELSE "done"

\* the entry of the call: the early return and the step count.  The caller
\* fades the same records once more after a first fade (out, then in).
FadeCall ==
    /\ pc = "idle" \/ (pc \in {"done", "raised"} /\ ~reused)
    /\ reused' = (pc # "idle")
    /\ volume_key' \in VolumeKeys
    /\ fade_duration' \in FadeDurations
    /\ fade_steps' = FadeSteps(fade_duration')
    /\ cmds' = [i \in 1..Len(media_player_dicts) |-> << >>]
    /\ c0' = [i \in 1..Len(media_player_dicts) |-> NoRead]
    /\ failed' = {}
    /\ exc' = "none"
    /\ step' = 0
    /\ dev' = 1
    /\ sleeps' = 0
    /\ slept' = << >>
    /\ pc' = IF Len(media_player_dicts) = 0 THEN "done"
             ELSE IF fade_steps' > 1 THEN "fade" ELSE "direct"
    /\ UNCHANGED <<envVars, waitVars, convVars, pureVars>>

\* one pass of the inner loop body of the stepped branch, up to and
\* including the awaited volume_set call
FadeDevice ==
    /\ pc = "fade"
    /\ LET dict    == media_player_dicts[dev]
           e       == dict.entity_id
           target  == TargetVolume(dict, volume_key)
           current == hass_states[e].volume_level
           dict1   == IF step = 0
                      THEN [dict EXCEPT
                              !.volume_steps = VolumeSteps(current, target, fade_steps),
                              !.has_volume_steps = TRUE]
                      ELSE dict
       IN  IF ~Live(e)
           THEN \* hass.states.get(entity_id) is None: AttributeError
                /\ exc' = "AttributeError"
                /\ pc' = "raised"
                /\ UNCHANGED <<envVars, step, dev, cmds, c0, failed>>
           ELSE /\ c0' = IF step = 0 THEN [c0 EXCEPT ![dev] = current] ELSE c0
                /\ IF SkipAtTarget(target, current, step) \/ SkipUnchanged(target)
                   THEN /\ FadeAdvance
                        /\ UNCHANGED <<envVars, cmds, failed, exc>>
                   ELSE IF ~dict1.has_volume_steps
                   THEN \* media_player_dict["volume_steps"]: KeyError
                        /\ exc' = "KeyError"
                        /\ pc' = "raised"
                        /\ UNCHANGED <<envVars, step, dev, cmds, failed>>
                   ELSE \E outcome \in Outcomes :
                        LET new_volume == NewVolume(dict1, step, target)
                        IN  /\ media_player_dicts' =
                                  [media_player_dicts EXCEPT ![dev] = dict1]
                            /\ cmds' = [cmds EXCEPT ![dev] = Append(@, new_volume)]
                            /\ hass_states' = AfterVolumeSet(e, new_volume, outcome)
                            /\ failed' = IF outcome = "raises"
                                         THEN failed \cup {dev} ELSE failed
                            /\ FadeAdvance
                            /\ UNCHANGED exc
    /\ UNCHANGED <<volume_key, fade_duration, fade_steps, reused, sleeps, slept,
                   waitVars, convVars, pureVars>>

\* delay_s = float(fade_duration / fade_steps), as the exact quotient of
\* the duration in milliseconds by the step count
DelayS(duration_ms, n) == [num |-> duration_ms, den |-> n]

\* await hass.async_add_executor_job(time.sleep, delay_s), then the next step
FadeSleep ==
    /\ pc = "fade_sleep"
    /\ sleeps' = sleeps + 1
    /\ slept' = Append(slept, DelayS(fade_duration, fade_steps))
    /\ step' = step + 1
    /\ dev' = 1
    /\ pc' = "fade"
    /\ UNCHANGED <<envVars, waitVars, volume_key, fade_duration, fade_steps,
                   cmds, c0, failed, exc, reused, convVars, pureVars>>

\* `if target_volume >= 0 and target_volume != current_volume`
DirectShouldSet(target, current) == target >= 0 /\ target # current

\* one pass of the loop body of the direct branch
DirectDevice ==
    /\ pc = "direct"
    /\ LET dict    == media_player_dicts[dev]
           e       == dict.entity_id
           target  == TargetVolume(dict, volume_key)
           current == hass_states[e].volume_level
       IN  IF ~Live(e)
           THEN /\ exc' = "AttributeError"
                /\ pc' = "raised"
                /\ UNCHANGED <<envVars, step, dev, cmds, c0, failed>>
           ELSE /\ c0' = [c0 EXCEPT ![dev] = current]
                /\ IF DirectShouldSet(target, current)
                   THEN \E outcome \in Outcomes :
                            /\ cmds' = [cmds EXCEPT ![dev] = Append(@, target)]
                            /\ hass_states' = AfterVolumeSet(e, target, outcome)
                            /\ failed' = IF outcome = "raises"
                                         THEN failed \cup {dev} ELSE failed
                            /\ FadeAdvance
                            /\ UNCHANGED <<media_player_dicts, exc>>
                   ELSE /\ FadeAdvance
                        /\ UNCHANGED <<envVars, cmds, failed, exc>>
    /\ UNCHANGED <<volume_key, fade_duration, fade_steps, reused, sleeps, slept,
                   waitVars, convVars, pureVars>>

\* The records are built from the live state (initial_volume_level is the
\* volume the device reported then); a device may have left the registry
\* since.
InitFade ==
    /\ \E n \in 0..MaxDevices :
         /\ hass_states \in [Entities ->
                [present : BOOLEAN, state : {"idle"}, volume_level : FadeVolumes]]
         /\ \A e \in Entities : e > n => hass_states[e] = Absent
         /\ \E playback \in [1..n -> PlaybackVolumes] :
              media_player_dicts =
                  [i \in 1..n |->
                      MediaPlayerDict(i, hass_states[i].volume_level, playback[i])]
    /\ pc = "idle"
    /\ sleeps = 0
    /\ WaitIdle
    /\ FadeIdle
    /\ ConvIdle
    /\ PureIdle

NextFade ==
    \/ FadeCall
    \/ FadeDevice
    \/ FadeSleep
    \/ DirectDevice

SpecFade == InitFade /\ [][NextFade]_vars

(***************************************************************************)
(* Properties of the fade (checked under SpecFade).                        *)
(***************************************************************************)
InFade == pc \in {"fade", "fade_sleep", "direct", "done", "raised"}
FadeEnded == pc \in {"done", "raised"}
Stepped == fade_steps > 1
Devices == 1..Len(media_player_dicts)
Target(i) == TargetVolume(media_player_dicts[i], volume_key)

\* the commands of a stepped fade from c to t in n steps: the k-th carries
\* c + k * (t - c) / n, the last one t, clamped to >= 0 and rounded
ExpectedCommands(c, t, n) ==
    [k \in 1..n |-> IF k < n THEN Round4Max0(c * n + k * (t - c), n)
                    ELSE Round4Max0(t, 1)]

\* device i takes part in the stepped fade: its target is not the sentinel
\* and differs from the volume read at the first step
Fades(i) == c0[i] # NoRead /\ Target(i) # -1 /\ Target(i) # c0[i]

\* C5: in a stepped fade, a device whose target equals its current volume at
\* the first step receives no intermediate command (at most one direct set
\* to the target) and the fade does not raise on it, whether or not the
\* record was used by an earlier fade.
C5_AtTargetNoIntermediateSteps ==
    \A i \in Devices :
        (InFade /\ Stepped /\ c0[i] # NoRead /\ Target(i) = c0[i]) =>
            /\ Len(cmds[i]) <= 1
            /\ \A k \in 1..Len(cmds[i]) : cmds[i][k] = Target(i)
            /\ ~(exc = "KeyError" /\ dev = i)

\* C6: in a stepped fade every device whose target is not the sentinel and
\* differs from the volume c0 read at the first step receives exactly
\* stepCount commands, the k-th carrying c0 + k*(target - c0)/stepCount and
\* the last the target, computed once from c0 (stated here for the lists
\* whose ids all resolve).
C6_ExactlyStepCountCommands ==
    \A i \in Devices :
        (FadeEnded /\ Stepped /\ Fades(i) /\ AllResolve(media_player_dicts)) =>
            cmds[i] = ExpectedCommands(c0[i], Target(i), fade_steps)

\* what C6 says of the fades that return: then every such device got
\* exactly the commands computed from c0
C6_HoldsWhenFadeReturns ==
    \A i \in Devices :
        (pc = "done" /\ Stepped /\ Fades(i)) =>
            cmds[i] = ExpectedCommands(c0[i], Target(i), fade_steps)

\* ... and until then a prefix of them
C6_PrefixWhileFading ==
    \A i \in Devices :
        (InFade /\ Stepped /\ Fades(i)) =>
            /\ Len(cmds[i]) <= fade_steps
            /\ \A k \in 1..Len(cmds[i]) :
                  cmds[i][k] = ExpectedCommands(c0[i], Target(i), fade_steps)[k]

\* C7: a device whose resolved target is the "unchanged" sentinel (-1) never
\* receives a volume-set command, in the stepped and in the direct path.
C7_SentinelNeverSet ==
    \A i \in Devices : (InFade /\ Target(i) = -1) => cmds[i] = << >>

\* a stepped fade that returned, in which a sentinel device was passed over
\* on every step while another device got all its commands
C7_Witness ==
    /\ pc = "done" /\ Stepped
    /\ \E i, j \in Devices :
          /\ Target(i) = -1 /\ Live(media_player_dicts[i].entity_id)
          /\ c0[i] # NoRead
          /\ Len(cmds[j]) = fade_steps

\* C8: when a volume-set command fails at some step, the fade is not
\* aborted: every device still receives all of its commands (the failing
\* one is tried again at the later steps) and the call returns normally
\* (stated here for the lists whose ids all resolve).
C8_FailureDoesNotAbort ==
    (FadeEnded /\ failed # {} /\ AllResolve(media_player_dicts)) =>
        /\ pc = "done"
        /\ \A i \in Devices :
              Fades(i) => Len(cmds[i]) = IF Stepped THEN fade_steps ELSE 1

\* what the handlers of the two volume_set calls do guarantee: no fade
\* ends by an exception other than the two the loop body itself raises
C8_OnlyLoopBodyRaises ==
    /\ pc = "raised" <=> exc # "none"
    /\ exc \in {"none", "KeyError", "AttributeError"}

\* C9: an id that is not in the live registry only has its own step
\* skipped: the call does not raise.
C9_UnknownIdIsSkipped ==
    (FadeEnded /\ \E i \in Devices : ~Live(media_player_dicts[i].entity_id)) =>
        exc # "AttributeError"

(***************************************************************************)
(* The transcoder invoker: ffmpeg_convert_from_file.                       *)
(***************************************************************************)
RECURSIVE Replace(_, _, _)
\* text.replace(old, new): every run `old`, left to right, becomes `new`
Replace(text, old, new) ==
    IF Len(text) < Len(old)
    THEN text
    ELSE IF SubSeq(text, 1, Len(old)) = old
    THEN new \o Replace(SubSeq(text, Len(old) + 1, Len(text)), old, new)
    ELSE <<Head(text)>> \o Replace(Tail(text), old, new)

\* the place of the first '-f' among the tokens, 0 when there is none
\* (ffmpeg_cmd.index('-f') is this place plus 2: 'ffmpeg', '-i' and the
\* path come first and the list is counted from 0)
FirstF(tokens) ==
    LET S == {i \in 1..Len(tokens) : tokens[i] = "-f"}
    IN  IF S = {} THEN 0 ELSE CHOOSE i \in S : \A j \in S : i <= j

\* `file_path.replace(".mp3", "_converted.mp3")`
DefaultOutput(file_path) ==
    Replace(file_path, <<".", "mp3">>, <<"_converted", ".", "mp3">>)

Bound(path) == [bound |-> TRUE, path |-> path]

Unbound == [bound |-> FALSE, path |-> << >>]

\* converted_file_path after the inner try: a path, or no value when
\* neither branch assigned it
OutputPath(file_path, args) ==
    LET tokens == args.tokens
        f == FirstF(tokens)
        index == f + 2
    IN  IF f = 0
        THEN Bound(DefaultOutput(file_path))            \* ValueError
        ELSE IF index >= 0 /\ ArgLen(args) >= index
        THEN IF f + 1 > Len(tokens)
             THEN Bound(DefaultOutput(file_path))       \* IndexError
             ELSE IF tokens[f + 1] # "mp3"
             THEN Bound(Replace(file_path, <<".", "mp3">>,
                                <<".", tokens[f + 1]>>))
             ELSE Unbound
        ELSE Unbound

\* what FFmpeg leaves at its output path
Converted(data) == [src |-> data.src, converted |-> TRUE, partial |-> FALSE]

Partial(data) == [src |-> data.src, converted |-> TRUE, partial |-> TRUE]

PopenOutcomes == {"exit0", "nonzero", "nonzero_partial", "raises"}

MoveOutcomes == {"ok", "raises"}

Returns(value, fs) == [raised |-> FALSE, value |-> value, fs |-> fs]

\* an exception before ffmpeg_cmd_string is assigned: the handler of
\* `except Exception` reads ffmpeg_cmd_string and raises UnboundLocalError
Raises(fs) == [raised |-> TRUE, value |-> False, fs |-> fs]

\* converted_file_path when the output file is deleted and FFmpeg is run
\* (lines 605-612); << >> when it has no value
ConvertedFilePath(file_path, args) ==
    LET out == OutputPath(file_path, args)
    IN  IF ~out.bound
        THEN << >>
        ELSE IF out.path = file_path
        THEN DefaultOutput(file_path)
        ELSE out.path

\* how the FFmpeg process ends, "none" when it is not started; FFmpeg
\* cannot succeed, or write anything, without its input file
ProcessExit(fs, file_path, args, popen) ==
    IF ~Exists(fs, file_path) \/ ~OutputPath(file_path, args).bound
    THEN "none"
    ELSE IF file_path # ConvertedFilePath(file_path, args)
            \/ popen = "raises"
    THEN popen
    ELSE "nonzero"

\* ffmpeg_convert_from_file(file_path, ffmpeg_args) on file system fs, with
\* the outcome of the FFmpeg process and of shutil.move
ConvertFromFile(fs, file_path, args, popen, move) ==
    IF ~Exists(fs, file_path)
    THEN Returns(False, fs)
    ELSE IF ~OutputPath(file_path, args).bound
    THEN Raises(fs)
    ELSE
      LET converted_file_path == ConvertedFilePath(file_path, args)
          fs1 == IF Exists(fs, converted_file_path)
                 THEN RemoveFile(fs, converted_file_path)
                 ELSE fs
          run == ProcessExit(fs, file_path, args, popen)
      IN  IF run = "raises"
          THEN Returns(Str(file_path), fs1)
          ELSE IF run = "nonzero"
          THEN Returns(False, fs1)
          ELSE IF run = "nonzero_partial"
          THEN Returns(False, WriteFile(fs1, converted_file_path,
                                        Partial(fs1[file_path])))
          ELSE
            LET fs2 == WriteFile(fs1, converted_file_path,
                                 Converted(fs1[file_path]))
            IN  IF converted_file_path = DefaultOutput(file_path)
                THEN IF move = "ok"
                     THEN Returns(Str(file_path),
                              WriteFile(RemoveFile(fs2, converted_file_path),
                                        file_path, fs2[converted_file_path]))
                     ELSE Returns(False, fs2)
                ELSE Returns(Str(converted_file_path), fs2)

(***************************************************************************)
(* The transcoder invoker: async_ffmpeg_convert_from_audio_segment.        *)
(* A call runs from one await to the next in one step; the calls of        *)
(* ConvCalls interleave at the awaits.                                     *)
(***************************************************************************)
\* the file async_save_audio_to_folder writes for a segment
Encoded(segment) ==
    [src |-> segment.src, converted |-> segment.converted, partial |-> FALSE]

\* the segment async_load_audio decodes from a file
Loaded(data) ==
    [src |-> data.src, converted |-> data.converted, loaded |-> TRUE]

\* the loop that deletes the temp file and the converted file
DeleteFiles(fs, temp_audio_file, converted_audio_file) ==
    LET fs1 == IF temp_audio_file # << >> /\ Exists(fs, temp_audio_file)
               THEN RemoveFile(fs, temp_audio_file)
               ELSE fs
    IN  IF converted_audio_file.ok /\ converted_audio_file.path # << >>
           /\ Exists(fs1, converted_audio_file.path)
        THEN RemoveFile(fs1, converted_audio_file.path)
        ELSE fs1

SaveOutcomes == {"ok", "fails"}

LoadOutcomes == {"ok", "raises"}

\* the call, up to `await ...async_save_audio_to_folder`
ConvCall(c) ==
    /\ pc = "idle"
    /\ conv[c].pc = "idle"
    /\ \E segment \in {None, AudioSegment(c)}, args \in ArgStrings,
          folder \in Folders :
         LET locals == [conv[c] EXCEPT !.audio_segment = segment,
                                       !.ffmpeg_args = args,
                                       !.folder = folder,
                                       !.ret_val = segment]
         IN  IF segment = None \/ ArgLen(args) = 0 \/ folder = << >>
             THEN conv' = [conv EXCEPT ![c] = [locals EXCEPT !.pc = "done"]]
             ELSE conv' = [conv EXCEPT ![c] = [locals EXCEPT !.pc = "save"]]
    /\ UNCHANGED <<envVars, pc, sleeps, waitVars, fadeVars, files, file_call,
                   pureVars>>

\* async_save_audio_to_folder writes folder/file_name and returns its path,
\* or returns no path
ConvSave(c) ==
    /\ conv[c].pc = "save"
    /\ \E outcome \in SaveOutcomes :
         IF outcome = "ok"
         THEN LET path == FullPath(conv[c].folder, temp_filename)
              IN  /\ files' = WriteFile(files, path,
                                        Encoded(conv[c].audio_segment))
                  /\ conv' = [conv EXCEPT ![c].temp_audio_file = path,
                                          ![c].pc = "convert"]
         ELSE /\ conv' = [conv EXCEPT ![c].logged = TRUE, ![c].pc = "done"]
              /\ UNCHANGED files
    /\ UNCHANGED <<envVars, pc, sleeps, waitVars, fadeVars, file_call, pureVars>>

\* from the return of the save to `await ...async_load_audio`, or to the
\* end of the call when there is nothing to load
ConvConvert(c) ==
    /\ conv[c].pc = "convert"
    /\ \E popen \in PopenOutcomes, move \in MoveOutcomes :
         LET r == ConvertFromFile(files, conv[c].temp_audio_file,
                                  conv[c].ffmpeg_args, popen, move)
             exit == ProcessExit(files, conv[c].temp_audio_file,
                                 conv[c].ffmpeg_args, popen)
         IN  IF r.raised
             THEN /\ conv' = [conv EXCEPT ![c].exc = "UnboundLocalError",
                                          ![c].pc = "raised"]
                  /\ files' = r.fs
             ELSE IF ~r.value.ok \/ TextLen(r.value.path) < 5
             THEN /\ conv' = [conv EXCEPT ![c].converted_audio_file = r.value,
                                          ![c].logged = TRUE,
                                          ![c].exit = exit,
                                          ![c].pc = "done"]
                  /\ files' = DeleteFiles(r.fs, conv[c].temp_audio_file, r.value)
             ELSE /\ conv' = [conv EXCEPT ![c].converted_audio_file = r.value,
                                          ![c].logged =
                                              @ \/ popen = "raises",
                                          ![c].exit = exit,
                                          ![c].pc = "load"]
                  /\ files' = r.fs
    /\ UNCHANGED <<envVars, pc, sleeps, waitVars, fadeVars, file_call, pureVars>>

\* async_load_audio returns or raises; then the files are deleted
ConvLoad(c) ==
    /\ conv[c].pc = "load"
    /\ \E outcome \in LoadOutcomes :
         LET path == conv[c].converted_audio_file.path
             ok == outcome = "ok" /\ Exists(files, path)
         IN  conv' = [conv EXCEPT
                        ![c].ret_val = IF ok THEN Loaded(files[path]) ELSE @,
                        ![c].logged = @ \/ ~ok,
                        ![c].pc = "done"]
    /\ files' = DeleteFiles(files, conv[c].temp_audio_file,
                            conv[c].converted_audio_file)
    /\ UNCHANGED <<envVars, pc, sleeps, waitVars, fadeVars, file_call, pureVars>>

\* files an earlier run may have left in the folder
StaleFiles ==
    { FullPath(<<"scratch">>, DefaultOutput(temp_filename)),
      FullPath(<<"scratch">>, <<"temp_segment", ".", "wav">>) }

InitConv ==
    /\ hass_states = [e \in Entities |-> Absent]
    /\ media_player_dicts = << >>
    /\ pc = "idle"
    /\ sleeps = 0
    /\ WaitIdle
    /\ FadeIdle
    /\ conv = [c \in ConvCalls |-> IdleCall]
    /\ file_call = [pc |-> "idle"]
    /\ PureIdle
    /\ \E stale \in SUBSET StaleFiles :
         files = [q \in stale |-> Partial(None)]

NextConv ==
    \/ \E c \in ConvCalls : ConvCall(c)
    \/ \E c \in ConvCalls : ConvSave(c)
    \/ \E c \in ConvCalls : ConvConvert(c)
    \/ \E c \in ConvCalls : ConvLoad(c)

SpecConv == InitConv /\ [][NextConv]_vars

(***************************************************************************)
(* Properties of the transcoder invoker (checked under SpecConv).          *)
(***************************************************************************)
\* C10: async_ffmpeg_convert_from_audio_segment never raises to its caller:
\* whatever the conversion arguments and whatever the outcome of saving,
\* running FFmpeg, renaming and loading, the call returns a buffer, and
\* when an error was logged on the way the buffer returned is the source
\* buffer, unchanged.
C10_NeverRaisesReturnsSource ==
    \A c \in ConvCalls :
        /\ conv[c].pc # "raised"
        /\ conv[c].pc = "done" /\ conv[c].audio_segment # None
              => conv[c].ret_val # None
        /\ conv[c].pc = "done" /\ conv[c].logged
              => conv[c].ret_val = conv[c].audio_segment

\* the call c runs alone: no other call has been made
Alone(c) == \A d \in ConvCalls \ {c} : conv[d].pc = "idle"

\* C11: when the FFmpeg process exits with a non-zero code, after the call
\* returns the folder holds neither the temp source file nor a file at the
\* computed output path, with the default suffix and with an explicit
\* format alike (stated for a call that runs alone).
C11_NonZeroExitLeavesNothing ==
    \A c \in ConvCalls :
        (conv[c].pc = "done" /\ Alone(c)
           /\ conv[c].exit \in {"nonzero", "nonzero_partial"}) =>
            /\ ~Exists(files, conv[c].temp_audio_file)
            /\ ~Exists(files, ConvertedFilePath(conv[c].temp_audio_file,
                                                conv[c].ffmpeg_args))

\* what the delete loop does guarantee: the temp source file is gone
C11_TempFileDeleted ==
    \A c \in ConvCalls :
        (conv[c].pc = "done" /\ Alone(c) /\ conv[c].temp_audio_file # << >>)
            => ~Exists(files, conv[c].temp_audio_file)

\* the call has saved its temp source file
Saved(c) == conv[c].temp_audio_file # << >>

\* C12: two calls that run concurrently on the same folder do not
\* interfere: the temp source file of each has a name the other does not
\* use, and each returns a buffer derived from its own source buffer.
C12_ConcurrentCallsDoNotInterfere ==
    /\ \A c, d \in ConvCalls :
          (c # d /\ Saved(c) /\ Saved(d)) =>
              conv[c].temp_audio_file # conv[d].temp_audio_file
    /\ \A c \in ConvCalls :
          conv[c].pc = "done" => conv[c].ret_val.src = conv[c].audio_segment.src

\* the second half of C12 on its own: a call returns a buffer derived from
\* its own source buffer
C12_ReturnsOwnBuffer ==
    \A c \in ConvCalls :
        conv[c].pc = "done" => conv[c].ret_val.src = conv[c].audio_segment.src

(***************************************************************************)
(* add_atempo_values_to_ffmpeg_args_string.                                *)
(* A tempo is counted in hundredths (the callers pass speed / 100).        *)
(* Dividing a double by 0.5 doubles it exactly and comparing with 0.5 is   *)
(* exact, so the stages are the doubles nearest to the numbers here.       *)
(***************************************************************************)
Half == 100 \div 2

DivideByHalfOff(remaining) == 2 * remaining + 1

\* `remaining /= 0.5`
DivideByHalf(remaining) == 2 * remaining

\* the text the for loop builds: one piece per element of tempos
AtempoString(given, tempos) ==
    [i \in 1..Len(tempos) |->
        [text |-> IF ~given /\ i = 1 THEN "-af atempo=" ELSE ",atempo=",
         value |-> tempos[i]]]

\* `if tempo < 0.5: tempos = [0.5]; remaining = tempo ... else: tempos = [tempo]`
AtempoBranch ==
    /\ atempo.pc = "call"
    /\ IF atempo.tempo < Half
       THEN atempo' = [atempo EXCEPT !.tempos = <<Half>>,
                                     !.remaining = atempo.tempo,
                                     !.pc = "loop"]
       ELSE atempo' = [atempo EXCEPT !.tempos = <<atempo.tempo>>,
                                     !.pc = "emit"]
    /\ UNCHANGED <<envVars, pc, sleeps, waitVars, fadeVars, convVars, mix, parse>>

\* one test of `while remaining < 0.5` and the body that follows it
AtempoIterate ==
    /\ atempo.pc = "loop"
    /\ IF atempo.remaining < Half
       THEN LET remaining == DivideByHalf(atempo.remaining)
            IN  IF remaining >= Half
                THEN atempo' = [atempo EXCEPT
                                  !.remaining = remaining,
                                  !.tempos = Append(@, remaining),
                                  !.pc = "emit"]
                ELSE atempo' = [atempo EXCEPT
                                  !.remaining = remaining,
                                  !.tempos = Append(@, Half)]
       ELSE atempo' = [atempo EXCEPT !.pc = "emit"]
    /\ UNCHANGED <<envVars, pc, sleeps, waitVars, fadeVars, convVars, mix, parse>>

\* `for tempo_n in tempos: ...` and the return
AtempoEmit ==
    /\ atempo.pc = "emit"
    /\ atempo' = [atempo EXCEPT
                    !.out = AtempoString(atempo.given, atempo.tempos),
                    !.pc = "done"]
    /\ UNCHANGED <<envVars, pc, sleeps, waitVars, fadeVars, convVars, mix, parse>>

InitTempo ==
    /\ hass_states = [e \in Entities |-> Absent]
    /\ media_player_dicts = << >>
    /\ pc = "idle"
    /\ sleeps = 0
    /\ WaitIdle
    /\ FadeIdle
    /\ ConvIdle
    /\ mix = [pc |-> "idle"]
    /\ parse = [pc |-> "idle"]
    /\ \E tempo \in 1..MaxTempoPercent, given \in BOOLEAN :
         atempo = [pc |-> "call", tempo |-> tempo, given |-> given,
                   tempos |-> << >>, remaining |-> 0, out |-> << >>]

NextTempo ==
    \/ AtempoBranch
    \/ AtempoIterate
    \/ AtempoEmit

SpecTempo == InitTempo /\ [][NextTempo]_vars

\* C13: for every tempo t > 0 the stages emitted multiply to t: one stage
\* equal to t when t >= 0.5; otherwise k - 1 >= 1 stages of 0.5 followed by
\* a last stage r with 0.5 <= r < 1 and t = 0.5^(k-1) * r; and the loop
\* terminates (remaining doubles at each round and the loop runs only while
\* it is below 0.5).
C13_StagesMultiplyToTempo ==
    /\ atempo.pc = "done" =>
          LET k == Len(atempo.out)
              stage == [i \in 1..k |-> atempo.out[i].value]
          IN  IF atempo.tempo >= Half
              THEN k = 1 /\ stage[1] = atempo.tempo
              ELSE /\ k >= 2
                   /\ \A i \in 1..(k - 1) : stage[i] = Half
                   /\ Half <= stage[k] /\ stage[k] < 100
                   /\ stage[k] = atempo.tempo * 2^(k - 1)
    /\ atempo.pc = "loop" =>
          /\ atempo.remaining < Half
          /\ atempo.remaining * 2 = atempo.tempo * 2^Len(atempo.tempos)
    /\ atempo.pc # "done" => ENABLED NextTempo

\* a tempo of 0.2 decomposed into 0.5, 0.5 and 0.8
C13_Witness ==
    /\ atempo.pc = "done"
    /\ atempo.tempo = 20
    /\ Len(atempo.out) = 3
    /\ atempo.out[3].value = 80

(***************************************************************************)
(* combine_audio and overlay.                                              *)
(* An AudioSegment is the sequence of its milliseconds; a millisecond is   *)
(* the set of the source samples mixed in it (a silent one is empty).      *)
(* A segment that is None is NoAudio.                                      *)
(***************************************************************************)
NoAudio == <<{<<"None", 0>>}>>

\* a segment of n ms of the source `name`
Audio(name, n) == [i \in 1..n |-> {<<name, i>>}]

\* AudioSegment.silent(duration)
Silent(duration) == [i \in 1..duration |-> {}]

\* pydub's seg1.overlay(seg2, position): as long as seg1, seg2 mixed in
\* from `position` on and cut where seg1 ends
PydubOverlay(seg1, seg2, position) ==
    [i \in 1..Len(seg1) |->
        IF i > position /\ i - position <= Len(seg2)
        THEN seg1[i] \cup seg2[i - position]
        ELSE seg1[i]]

\* audio_2[overlay:]
SliceFrom(seg, ms) == SubSeq(seg, ms + 1, Len(seg))

OverlapPointZero(len1, overlay) == 0

\* `overlap_point = max(0, len(audio_1) - overlay)`
OverlapPoint(len1, overlay) ==
    IF len1 - overlay > 0 THEN len1 - overlay ELSE 0

\* overlay(audio_1, audio_2, overlay)
Overlay(audio_1, audio_2, offset) ==
    LET overlay == IF offset < 0 THEN 0 - offset ELSE offset
        overlap_point == OverlapPoint(Len(audio_1), overlay)
        crossover_audio == PydubOverlay(audio_1, audio_2, overlap_point)
    IN  IF Len(audio_2) > overlay
        THEN crossover_audio \o SliceFrom(audio_2, overlay)
        ELSE crossover_audio

\* combine_audio(audio_1, audio_2, offset)
CombineAudio(audio_1, audio_2, offset) ==
    IF audio_1 = NoAudio
    THEN audio_2
    ELSE IF audio_2 = NoAudio
    THEN audio_1
    ELSE IF offset < 0
    THEN Overlay(audio_1, audio_2, offset)
    ELSE IF offset > 0
    THEN audio_1 \o (Silent(offset) \o audio_2)
    ELSE audio_1 \o audio_2

Combine ==
    /\ mix.pc = "call"
    /\ mix' = [mix EXCEPT
                 !.ret_val = CombineAudio(mix.audio_1, mix.audio_2, mix.offset),
                 !.pc = "done"]
    /\ UNCHANGED <<envVars, pc, sleeps, waitVars, fadeVars, convVars, atempo, parse>>

InitMix ==
    /\ hass_states = [e \in Entities |-> Absent]
    /\ media_player_dicts = << >>
    /\ pc = "idle"
    /\ sleeps = 0
    /\ WaitIdle
    /\ FadeIdle
    /\ ConvIdle
    /\ atempo = [pc |-> "idle"]
    /\ parse = [pc |-> "idle"]
    /\ \E audio_1 \in {NoAudio} \cup {Audio("a", n) : n \in 0..MaxAudioMs},
          audio_2 \in {NoAudio} \cup {Audio("b", n) : n \in 0..MaxAudioMs},
          offset \in (0 - MaxAudioMs - 1)..MaxAudioMs :
         mix = [pc |-> "call", audio_1 |-> audio_1, audio_2 |-> audio_2,
                offset |-> offset, ret_val |-> NoAudio]

NextMix == Combine

SpecMix == InitMix /\ [][NextMix]_vars

\* C14: for combine_audio(a, b, -d) with 0 < d <= len(a), the first
\* len(a) - d ms of the result are those of a, the next d ms are the last
\* d ms of a mixed with the first d ms of b, and what b has beyond d ms
\* follows unmixed: the result is len(a) + max(0, len(b) - d) ms long.
C14_OverlayKeepsPrefix ==
    (/\ mix.pc = "done"
     /\ mix.audio_1 # NoAudio /\ mix.audio_2 # NoAudio
     /\ mix.offset < 0 /\ 0 - mix.offset <= Len(mix.audio_1)) =>
        LET a == mix.audio_1
            b == mix.audio_2
            d == 0 - mix.offset
            r == mix.ret_val
            tail == IF Len(b) > d THEN Len(b) - d ELSE 0
        IN  /\ Len(r) = Len(a) + tail
            /\ \A i \in 1..(Len(a) - d) : r[i] = {<<"a", i>>}
            /\ \A j \in 1..d :
                  r[Len(a) - d + j] =
                      {<<"a", Len(a) - d + j>>}
                          \cup (IF j <= Len(b) THEN {<<"b", j>>} ELSE {})
            /\ \A j \in 1..tail : r[Len(a) + j] = {<<"b", d + j>>}

\* an overlay of 2 ms of a 4 ms segment with a 3 ms one
C14_Witness ==
    /\ mix.pc = "done"
    /\ mix.offset = 0 - 2
    /\ mix.audio_1 = Audio("a", 4)
    /\ mix.audio_2 = Audio("b", 3)
    /\ Len(mix.ret_val) = 5

(***************************************************************************)
(* parse_message: the values.                                              *)
(* A string is the sequence of the pieces of its text; a quote is the      *)
(* piece "'", a backslash the piece "\\". A dict is the sequence of its    *)
(* items [k, str, v] in insertion order (str: the key is a string). A      *)
(* value is [t, s, n, d]: its type, and its text, number or items.         *)
(***************************************************************************)
QUOTE_CHAR_SUBSTITUTE == "<quote>"

VStr(pieces) == [t |-> "str", s |-> pieces, n |-> 0, d |-> << >>]

VInt(n) == [t |-> "int", s |-> << >>, n |-> n, d |-> << >>]

VNone == [t |-> "none", s |-> << >>, n |-> 0, d |-> << >>]

VDict(items) == [t |-> "dict", s |-> << >>, n |-> 0, d |-> items]

Item(k, v) == [k |-> k, str |-> TRUE, v |-> v]

\* an item whose key is the number 1
IntKeyItem(v) == [k |-> "1", str |-> FALSE, v |-> v]

\* `key in d`
HasKey(d, k) == \E i \in 1..Len(d) : d[i].str /\ d[i].k = k

KeyIndex(d, k) == CHOOSE i \in 1..Len(d) : d[i].str /\ d[i].k = k

\* d[k] of a key that is in d
GetItem(d, k) == d[KeyIndex(d, k)].v

\* d.get(k, default)
Get(d, k, default) == IF HasKey(d, k) THEN GetItem(d, k) ELSE default

\* `d[k] = v`: in place when the key is there, at the end otherwise
SetItem(d, k, v) ==
    IF HasKey(d, k)
    THEN [d EXCEPT ![KeyIndex(d, k)].v = v]
    ELSE Append(d, Item(k, v))

\* `del d[k]`
DelItem(d, k) ==
    LET i == KeyIndex(d, k)
    IN  SubSeq(d, 1, i - 1) \o SubSeq(d, i + 1, Len(d))

\* str.lower() on the keys used here
Lower(k) ==
    CASE k = "Speed" -> "speed"
      [] k = "Voice" -> "voice"
      [] k = "TTS" -> "tts"
      [] OTHER -> k

\* bool(value)
Truthy(v) ==
    CASE v.t = "str" -> v.s # << >>
      [] v.t = "int" -> v.n # 0
      [] v.t = "dict" -> v.d # << >>
      [] OTHER -> FALSE

\* the three replacements of convert_yaml_str on the text of a string:
\* a quote gets a backslash, a quote that had one already becomes the
\* substitute, and the other quotes lose the backslash again
ConvertQuotes(text) ==
    Replace(Replace(Replace(text, <<"'">>, <<"\\", "'">>),
                    <<"\\", "\\", "'">>, <<QUOTE_CHAR_SUBSTITUTE>>),
            <<"\\", "'">>, <<"'">>)

\* text.replace(QUOTE_CHAR_SUBSTITUTE, "'")
RestoreQuotes(text) == Replace(text, <<QUOTE_CHAR_SUBSTITUTE>>, <<"'">>)

(***************************************************************************)
(* parse_message: the message strings and what they decode to.             *)
(* A message string is modelled with the object YAML reads in it; the      *)
(* strings of that object are still as they stand in the text, and         *)
(* convert_yaml_str changes their quotes before YAML decodes them.         *)
(***************************************************************************)
VList(elems) == [t |-> "list", s |-> << >>, n |-> 0, d |-> elems]

\* the entries a list may hold
Entries ==
    { VDict(<<Item("chime", VStr(<<"bell.mp3">>))>>),
      VDict(<<Item("tts", VStr(<<"Hello">>))>>),
      VDict(<<Item("delay", VInt(500))>>),
      VDict(<<Item("tts", VStr(<<"Hi">>)), Item("repeat", VInt(3))>>),
      VDict(<<Item("tts", VStr(<<"Hi">>)), Item("repeat", VInt(0))>>),
      VDict(<<Item("tts", VStr(<<"Hi">>)), Item("repeat", VStr(<<"x">>))>>),
      VDict(<<Item("type", VStr(<<"tts">>)),
              Item("message", VStr(<<"it", "\\", "'", "s">>))>>),
      VDict(<<Item("tts", VStr(<<"it", "\\", "'", "s">>))>>),
      VDict(<<Item("tts", VInt(5))>>),
      VDict(<<Item("chime", VNone)>>),
      VStr(<<"x">>),
      VDict(<<Item("foo", VStr(<<"x">>))>>),
      VDict(<<Item("tts", VStr(<<"a">>)), Item("Speed", VInt(150)),
              Item("pitch", VInt(2))>>),
      VDict(<<IntKeyItem(VStr(<<"x">>)), Item("tts", VStr(<<"a">>))>>),
      VDict(<<Item("type", VStr(<<"tts">>)), Item("message", VStr(<<"a">>)),
              Item("options", VDict(<<Item("Voice", VInt(1))>>))>>) }

\* the lists of at most MaxEntries entries
Lists == UNION { [1..n -> Entries] : n \in 0..MaxEntries }

\* a message string: its text, and the object YAML reads in it ("error"
\* when YAML cannot read it)
Message(text, yaml) == [text |-> text, yaml |-> yaml]

YamlError == [t |-> "error", s |-> << >>, n |-> 0, d |-> << >>]

\* a recognized key written as a quoted key in the text: 'tts': or "tts":
\* (and so for type, chime and delay)
QuotedKey == "'key':"

\* the ways a list is written: with its keys bare ([{tts: Hello}]), with a
\* quoted key ([{'tts': 'Hello'}]), and with niqqud characters in it
ListTexts ==
    { <<"[...]">>, <<"[", QuotedKey, "...]">>, <<"[...]", "niqqud">> }

\* the message strings: empty, "None", a plain text, a text YAML cannot
\* read, a map, and the lists
Messages ==
    { Message(<< >>, VNone),
      Message(<<"None">>, VNone),
      Message(<<"Hello world">>, VStr(<<"Hello world">>)),
      Message(<<"Hello: [">>, YamlError),
      Message(<<"{tts: Hello}">>, VDict(<<Item("tts", VStr(<<"Hello">>))>>)) }
    \cup { Message(text, VList(list)) : list \in Lists, text \in ListTexts }

\* remove_niqqud
RemoveNiqqud(text) == SelectSeq(text, LAMBDA piece : piece # "niqqud")

RECURSIVE DecodeValue(_)
\* the strings of a value after the quote replacements and YAML's decoding
DecodeValue(v) ==
    CASE v.t = "str" -> VStr(ConvertQuotes(v.s))
      [] v.t = "dict" ->
            VDict([i \in 1..Len(v.d) |->
                      [v.d[i] EXCEPT !.v = DecodeValue(v.d[i].v)]])
      [] v.t = "list" -> VList([i \in 1..Len(v.d) |-> DecodeValue(v.d[i])])
      [] OTHER -> v

\* convert_yaml_str(yaml_string): {} for an empty string, None when YAML
\* raises, the object otherwise
ConvertYamlStr(message) ==
    IF message.text = << >>
    THEN VDict(<< >>)
    ELSE IF message.yaml.t = "error"
    THEN VNone
    ELSE DecodeValue(message.yaml)

(***************************************************************************)
(* parse_message: the function.                                            *)
(***************************************************************************)
\* the result of a step that may raise
Ok(value) == [exc |-> "none", value |-> value]

Raise(error) == [exc |-> error, value |-> << >>]

\* an entry that is neither a dict nor a dict with one of the keys
Invalid == <<"invalid">>

\* the body of `for elem in message_yaml`: the entry in long form, Invalid
\* when it sets is_valid = False; calling replace on a value that is not a
\* string raises AttributeError
LongForm(elem) ==
    IF elem.t # "dict"
    THEN Ok(Invalid)
    ELSE IF HasKey(elem.d, "type")
    THEN Ok(elem.d)
    ELSE IF HasKey(elem.d, "chime")
    THEN IF GetItem(elem.d, "chime").t # "str"
         THEN Raise("AttributeError")
         ELSE Ok(DelItem(
                  SetItem(SetItem(elem.d, "type", VStr(<<"chime">>)), "path",
                          VStr(RestoreQuotes(GetItem(elem.d, "chime").s))),
                  "chime"))
    ELSE IF HasKey(elem.d, "tts")
    THEN IF GetItem(elem.d, "tts").t # "str"
         THEN Raise("AttributeError")
         ELSE Ok(DelItem(
                  SetItem(SetItem(elem.d, "type", VStr(<<"tts">>)), "message",
                          VStr(RestoreQuotes(GetItem(elem.d, "tts").s))),
                  "tts"))
    ELSE IF HasKey(elem.d, "delay")
    THEN Ok(DelItem(
             SetItem(SetItem(elem.d, "type", VStr(<<"delay">>)), "length",
                     GetItem(elem.d, "delay")),
             "delay"))
    ELSE Ok(Invalid)

RECURSIVE Validate(_, _, _)
\* the loop over message_yaml from entry i on: the segments, << >> when
\* is_valid is False at the end
Validate(elems, i, is_valid) ==
    IF i > Len(elems)
    THEN Ok(IF is_valid THEN elems ELSE << >>)
    ELSE LET r == LongForm(elems[i])
         IN  IF r.exc # "none"
             THEN r
             ELSE IF r.value = Invalid
             THEN Validate(elems, i + 1, FALSE)
             ELSE Validate([elems EXCEPT ![i] = r.value], i + 1, is_valid)

\* lines 299-338: the segments before the final adjustments
Segments(message_string, message_yaml) ==
    LET r == IF message_yaml.t = "list"
             THEN Validate(message_yaml.d, 1, TRUE)
             ELSE Ok(<< >>)
    IN  IF r.exc # "none"
        THEN r
        ELSE IF Len(r.value) = 0
        THEN Ok(<< <<Item("type", VStr(<<"tts">>)),
                     Item("message", VStr(message_string))>> >>)
        ELSE r

RECURSIVE LowerInner(_, _)
\* `for key_n, value_n in value.items(): value[key_n.lower()] = value_n`:
\* a key that is new to the dict changes its size under the iteration
LowerInner(d, i) ==
    IF i > Len(d)
    THEN Ok(d)
    ELSE IF ~d[i].str
    THEN Raise("AttributeError")
    ELSE IF HasKey(d, Lower(d[i].k))
    THEN LowerInner(SetItem(d, Lower(d[i].k), d[i].v), i + 1)
    ELSE Raise("RuntimeError")

RECURSIVE LowerKeys(_, _, _)
\* `for key, value in segment_n.items(): ... segment[key.lower()] = value`
LowerKeys(items, i, segment) ==
    IF i > Len(items)
    THEN Ok(segment)
    ELSE LET inner == IF items[i].v.t = "dict"
                      THEN LowerInner(items[i].v.d, 1)
                      ELSE Ok(<< >>)
             value == IF items[i].v.t = "dict"
                      THEN VDict(inner.value)
                      ELSE items[i].v
         IN  IF inner.exc # "none"
             THEN inner
             ELSE IF ~items[i].str
             THEN Raise("AttributeError")
             ELSE LowerKeys(items, i + 1,
                            SetItem(segment, Lower(items[i].k), value))

\* `if segment.get(alias): segment[key] = segment.get(alias); del ...`
Rename(segment, alias, key) ==
    IF Truthy(Get(segment, alias, VNone))
    THEN DelItem(SetItem(segment, key, GetItem(segment, alias)), alias)
    ELSE segment

RepeatUnclamped(segment) ==
    LET repeat == Get(segment, "repeat", VInt(1))
    IN  IF repeat.t = "int" THEN repeat.n ELSE 1

\* `repeat`: max(segment.get("repeat", 1), 1) of an int, 1 otherwise
Repeat(segment) ==
    LET repeat == Get(segment, "repeat", VInt(1))
    IN  IF repeat.t = "int" /\ repeat.n > 1 THEN repeat.n ELSE 1

\* the body of the final loop for one segment: its copies
FinalSegments(segment_n) ==
    LET r == LowerKeys(segment_n, 1, << >>)
    IN  IF r.exc # "none"
        THEN r
        ELSE LET segment == Rename(Rename(r.value, "speed", "tts_speed"),
                                   "pitch", "tts_pitch")
             IN  Ok([j \in 1..Repeat(segment) |-> segment])

\* the text a sequence of segments is written as, for another parse: the
\* list of the segments as they are
Serialized(final_segments) ==
    IF final_segments = << >>
    THEN Message(<< >>, VNone)
    ELSE Message(<<"[...]">>,
                 VList([i \in 1..Len(final_segments) |->
                           VDict(final_segments[i])]))

\* contains_keys after the loop over the keys: it starts as True, and
\* `contains_keys or message_string.find(...) > -1` leaves it True
ContainsKeys(message_string) ==
    TRUE \/ \E i \in 1..Len(message_string) : message_string[i] = QuotedKey

\* lines 291-338: from the call to the segments
ParseCall ==
    /\ parse.pc = "call"
    /\ LET message_string == RemoveNiqqud(parse.message.text)
           message_yaml == IF ContainsKeys(message_string)
                           THEN ConvertYamlStr(Message(message_string,
                                                       parse.message.yaml))
                           ELSE VNone
           r == Segments(message_string, message_yaml)
       IN  IF Len(message_string) = 0 \/ message_string = <<"None">>
           THEN parse' = [parse EXCEPT !.pc = "done"]
           ELSE IF r.exc # "none"
           THEN parse' = [parse EXCEPT !.exc = r.exc, !.pc = "raised"]
           ELSE parse' = [parse EXCEPT !.segments = r.value, !.i = 1,
                                       !.pc = "final"]
    /\ UNCHANGED <<envVars, pc, sleeps, waitVars, fadeVars, convVars, atempo, mix>>

\* one round of `for _, segment_n in enumerate(segments)`
ParseSegment ==
    /\ parse.pc = "final"
    /\ parse.i <= Len(parse.segments)
    /\ LET r == FinalSegments(parse.segments[parse.i])
       IN  IF r.exc # "none"
           THEN parse' = [parse EXCEPT !.exc = r.exc, !.pc = "raised"]
           ELSE parse' = [parse EXCEPT
                            !.final_segments = @ \o r.value,
                            !.copies = Append(@, Len(r.value)),
                            !.i = @ + 1]
    /\ UNCHANGED <<envVars, pc, sleeps, waitVars, fadeVars, convVars, atempo, mix>>

\* `return final_segments`
ParseReturn ==
    /\ parse.pc = "final"
    /\ parse.i > Len(parse.segments)
    /\ parse' = [parse EXCEPT !.pc = "done"]
    /\ UNCHANGED <<envVars, pc, sleeps, waitVars, fadeVars, convVars, atempo, mix>>

\* the segments returned are written out and parsed again
ParseAgain ==
    /\ parse.pc = "done"
    /\ parse.pass = 1
    /\ parse' = [parse EXCEPT !.pass = 2,
                              !.first = parse.final_segments,
                              !.message = Serialized(parse.final_segments),
                              !.segments = << >>,
                              !.final_segments = << >>,
                              !.copies = << >>,
                              !.i = 0,
                              !.pc = "call"]
    /\ UNCHANGED <<envVars, pc, sleeps, waitVars, fadeVars, convVars, atempo, mix>>

InitParse ==
    /\ hass_states = [e \in Entities |-> Absent]
    /\ media_player_dicts = << >>
    /\ pc = "idle"
    /\ sleeps = 0
    /\ WaitIdle
    /\ FadeIdle
    /\ ConvIdle
    /\ atempo = [pc |-> "idle"]
    /\ mix = [pc |-> "idle"]
    /\ \E message \in Messages :
         parse = [pc |-> "call", message |-> message, segments |-> << >>,
                  final_segments |-> << >>, copies |-> << >>, i |-> 0,
                  exc |-> "none", pass |-> 1, first |-> << >>]

NextParse ==
    \/ ParseCall
    \/ ParseSegment
    \/ ParseReturn
    \/ ParseAgain

SpecParse == InitParse /\ [][NextParse]_vars

(***************************************************************************)
(* Properties of parse_message (checked under SpecParse).                  *)
(***************************************************************************)
\* the message decodes to a non-empty list (first parse)
ParsesList ==
    /\ parse.pass = 1
    /\ parse.message.yaml.t = "list"
    /\ Len(parse.message.yaml.d) >= 1

TheList == parse.message.yaml.d

\* an entry that is a map with `type` or one of the short-form keys
ValidEntry(e) ==
    /\ e.t = "dict"
    /\ \E k \in {"type", "chime", "tts", "delay"} : HasKey(e.d, k)

\* the short-form key an entry is read by, "" for a long-form entry
ShortKey(d) ==
    IF HasKey(d, "type") THEN ""
    ELSE IF HasKey(d, "chime") THEN "chime"
    ELSE IF HasKey(d, "tts") THEN "tts"
    ELSE "delay"

Payload(short) ==
    CASE short = "chime" -> "path"
      [] short = "tts" -> "message"
      [] OTHER -> "length"

\* a value as its author meant it: an escaped quote is a quote
Meant(v) ==
    IF v.t = "str" THEN VStr(Replace(v.s, <<"\\", "'">>, <<"'">>)) ELSE v

\* the name a key is kept under: lower case, and the aliases renamed
KeptAs(k, v) ==
    IF Lower(k) = "speed" /\ Truthy(v) THEN "tts_speed"
    ELSE IF Lower(k) = "pitch" /\ Truthy(v) THEN "tts_pitch"
    ELSE Lower(k)

\* the long form of a valid entry, as the set of its items
ExpectedItems(e) ==
    LET short == ShortKey(e.d)
        others == {i \in 1..Len(e.d) : ~(e.d[i].str /\ e.d[i].k = short)}
    IN  {<<KeptAs(e.d[i].k, e.d[i].v), Meant(e.d[i].v)>> : i \in others}
        \cup (IF short = ""
              THEN {}
              ELSE {<<"type", VStr(<<short>>)>>,
                    <<Payload(short), Meant(GetItem(e.d, short))>>})

ItemsOf(segment) == {<<segment[i].k, segment[i].v>> : i \in 1..Len(segment)}

RECURSIVE SumTo(_, _)
SumTo(counts, n) == IF n = 0 THEN 0 ELSE counts[n] + SumTo(counts, n - 1)

\* the place in final_segments of the first copy of segment i
FirstCopy(i) == SumTo(parse.copies, i - 1) + 1

\* C15: for a list in which every entry is a map with `type` or a
\* short-form key, parse_message returns, in input order, one long-form
\* segment per entry (before repeat expansion): chime: v gives type=chime
\* and path=v, tts: v gives type=tts and message=v, delay: v gives
\* type=delay and length=v; the short-form key is removed and the other
\* keys are kept.
C15_ShortFormNormalized ==
    (ParsesList /\ \A i \in 1..Len(TheList) : ValidEntry(TheList[i])) =>
        /\ parse.pc # "raised"
        /\ parse.pc = "done" =>
              /\ Len(parse.copies) = Len(TheList)
              /\ \A i \in 1..Len(TheList) :
                    ItemsOf(parse.final_segments[FirstCopy(i)])
                        = ExpectedItems(TheList[i])

\* an entry whose strings stand where parse_message can call replace on
\* them, whose keys are strings, and with no quote in a long-form payload
WellTyped(e) ==
    /\ ValidEntry(e)
    /\ \A i \in 1..Len(e.d) : e.d[i].str /\ e.d[i].v.t # "dict"
    /\ ShortKey(e.d) \in {"chime", "tts"} => GetItem(e.d, ShortKey(e.d)).t = "str"
    /\ ShortKey(e.d) = "" =>
          \A i \in 1..Len(e.d) : e.d[i].v = Meant(e.d[i].v)

\* what parse_message does guarantee: the long forms of C15 for the lists
\* of well-typed entries
C15_HoldsForWellTyped ==
    (ParsesList /\ \A i \in 1..Len(TheList) : WellTyped(TheList[i])) =>
        /\ parse.pc # "raised"
        /\ parse.pc = "done" =>
              /\ Len(parse.copies) = Len(TheList)
              /\ \A i \in 1..Len(TheList) :
                    ItemsOf(parse.final_segments[FirstCopy(i)])
                        = ExpectedItems(TheList[i])

\* the list holds an entry that is not a map, or a map with none of the keys
HasInvalidEntry == \E i \in 1..Len(TheList) : ~ValidEntry(TheList[i])

\* the single segment {type: tts, message: text}
FallbackSegment(text) ==
    {<<"type", VStr(<<"tts">>)>>, <<"message", VStr(text)>>}

\* C16: if the decoded list holds at least one entry that is not a map, or
\* a map with none of type, chime, tts, delay, parse_message returns
\* exactly one segment {type: tts, message: the entire original string},
\* wherever the invalid entry stands and whatever valid entries surround it.
C16_InvalidEntryFallsBack ==
    (ParsesList /\ HasInvalidEntry) =>
        /\ parse.pc # "raised"
        /\ parse.pc = "done" =>
              /\ Len(parse.final_segments) = 1
              /\ ItemsOf(parse.final_segments[1])
                    = FallbackSegment(parse.message.text)

\* what parse_message does guarantee: when it returns for such a list it
\* returns the single segment, whose message is the string without its
\* niqqud characters
C16_FallbackWhenReturns ==
    (ParsesList /\ HasInvalidEntry /\ parse.pc = "done") =>
        /\ Len(parse.final_segments) = 1
        /\ ItemsOf(parse.final_segments[1])
              = FallbackSegment(RemoveNiqqud(parse.message.text))

\* the number of copies the `repeat` of an input segment asks for: the
\* integer when it is one and at least 1, and 1 when it is absent, not an
\* integer or below 1
CopiesAskedFor(segment_n) ==
    IF /\ HasKey(segment_n, "repeat")
       /\ GetItem(segment_n, "repeat").t = "int"
       /\ GetItem(segment_n, "repeat").n >= 1
    THEN GetItem(segment_n, "repeat").n
    ELSE 1

\* the places in final_segments of the copies of segment k
CopiesOf(k) == FirstCopy(k)..(FirstCopy(k) + parse.copies[k] - 1)

\* C17: every segment is expanded into max(repeat, 1) identical, adjacent
\* copies when `repeat` is an integer and into exactly one copy otherwise;
\* the copies stand in the order of the segments, so the output is as long
\* as the sum of the copy counts.
C17_RepeatExpansion ==
    /\ Len(parse.final_segments) = SumTo(parse.copies, Len(parse.copies))
    /\ \A k \in 1..Len(parse.copies) :
          /\ parse.copies[k] = CopiesAskedFor(parse.segments[k])
          /\ \A j \in CopiesOf(k) :
                /\ parse.final_segments[j] = parse.final_segments[FirstCopy(k)]
                /\ Get(parse.final_segments[j], "type", VNone)
                      = Get(parse.segments[k], "type", VNone)

\* `repeat: 3` on the first of two segments: three identical adjacent
\* copies, then the one copy of the second segment (whose repeat is 0)
C17_Witness ==
    /\ parse.pc = "done"
    /\ parse.pass = 1
    /\ parse.copies = <<3, 1>>
    /\ Get(parse.segments[1], "repeat", VNone) = VInt(3)
    /\ Get(parse.segments[2], "repeat", VNone) = VInt(0)
    /\ Len(parse.final_segments) = 4
    /\ parse.final_segments[1] = parse.final_segments[3]
    /\ parse.final_segments[3] # parse.final_segments[4]

\* two segment sequences are equal: as long as each other, with the same
\* items in each place
SameSegments(a, b) ==
    /\ Len(a) = Len(b)
    /\ \A i \in 1..Len(a) : ItemsOf(a[i]) = ItemsOf(b[i])

\* C18: parsing the re-serialized output of parse_message returns a segment
\* sequence equal to that output, also when segments carry a repeat above
\* 1, the speed and pitch aliases or upper-case keys.
C18_Idempotent ==
    parse.pass = 2 =>
        /\ parse.pc # "raised"
        /\ parse.pc = "done" => SameSegments(parse.final_segments, parse.first)

\* what parse_message does guarantee: the second parse returns the first
\* output when no segment of that output has a repeat above 1
C18_IdempotentWithoutRepeat ==
    (/\ parse.pass = 2
     /\ \A i \in 1..Len(parse.first) : CopiesAskedFor(parse.first[i]) = 1) =>
        /\ parse.pc # "raised"
        /\ parse.pc = "done" => SameSegments(parse.final_segments, parse.first)

\* C19: parse_message never raises, whatever the input string: a string
\* that does not decode, decodes to something that is not a list, or to a
\* list whose entries have unexpected value types or keys that are not
\* strings gives the fallback segment or a normalized sequence.
C19_NeverRaises ==
    /\ parse.pc # "raised"
    /\ parse.exc = "none"

\* what parse_message does guarantee: a string that does not decode or
\* does not decode to a list never raises, and gives the fallback segment
\* unless it is empty or "None"
C19_SoftFailsWithoutList ==
    (parse.pass = 1 /\ parse.message.yaml.t # "list") =>
        /\ parse.pc # "raised"
        /\ parse.pc = "done" =>
              \/ /\ RemoveNiqqud(parse.message.text) \in {<< >>, <<"None">>}
                 /\ parse.final_segments = << >>
              \/ /\ Len(parse.final_segments) = 1
                 /\ ItemsOf(parse.final_segments[1])
                       = FallbackSegment(RemoveNiqqud(parse.message.text))

\* the text of a value holds the quote substitute
HasSubstitute(v) ==
    /\ v.t = "str"
    /\ \E i \in 1..Len(v.s) : v.s[i] = QUOTE_CHAR_SUBSTITUTE

\* no `path` or `message` of the segments holds the quote substitute
NoSubstitute(final_segments) ==
    \A i \in 1..Len(final_segments) :
        \A j \in 1..Len(final_segments[i]) :
            final_segments[i][j].k \in {"path", "message"} =>
                ~HasSubstitute(final_segments[i][j].v)

\* C20: no `path` or `message` payload of a returned segment contains the
\* quote substitute: every escaped quote replaced before decoding is
\* restored to a literal quote, in short-form entries (chime, tts) and in
\* long-form entries (type with path or message) alike.
C20_NoSubstituteInPayloads ==
    (parse.pass = 1 /\ parse.pc = "done") => NoSubstitute(parse.final_segments)

\* what parse_message does guarantee: the payloads are restored when no
\* entry of the list is in long form
C20_ShortFormRestored ==
    (/\ ParsesList
     /\ \A i \in 1..Len(TheList) :
           TheList[i].t = "dict" => ~HasKey(TheList[i].d, "type")
     /\ parse.pc = "done") => NoSubstitute(parse.final_segments)

(***************************************************************************)
(* Further properties of the waiters (checked under SpecWait).             *)
(***************************************************************************)
\* C21: _async_wait_until_media_players sleeps at the end of a round only
\* if devices remain in the waiting set and budget remains after the
\* round's decrement: it never sleeps in the round that exhausts the
\* budget, so with a predicate that is never satisfied the number of
\* sleeps is one less than the number of rounds.
C21_NoSleepOnceBudgetExhausted ==
    IsWaitUntil =>
        /\ pc = "sleep" => (Len(still_waiting) > 0 /\ FPos(timeout))
        /\ (pc = "done" /\ NeverSatisfied /\ rounds >= 1) =>
              sleeps = rounds - 1

\* what the loop does guarantee: it sleeps after every round that leaves a
\* device waiting, whatever the budget, so a call that times out has slept
\* once per round
C21_SleepsWhileDevicesRemain ==
    IsWaitUntil =>
        /\ pc = "sleep" => Len(still_waiting) > 0
        /\ (pc = "done" /\ Len(still_waiting) > 0) => sleeps = rounds

(***************************************************************************)
(* Further properties of the fade (checked under SpecFade).                *)
(***************************************************************************)
\* the commands and the sleeps so far are ordered by step: step k runs after
\* exactly k sleeps of duration / steps each, the devices before `dev` have
\* been handled in step k and the others not yet
OrderedByStep ==
    /\ Len(slept) = step
    /\ sleeps = step
    /\ \A j \in 1..Len(slept) : slept[j] = [num |-> fade_duration, den |-> fade_steps]
    /\ pc = "fade_sleep" => step < fade_steps - 1
    /\ \A i \in Devices :
          Len(cmds[i]) <= (IF pc \in {"fade_sleep", "done"} \/ i < dev
                           THEN step + 1 ELSE step)

\* C22: in a stepped fade the commands are ordered by step: the volume-set
\* commands of step k are issued one after another in device-list order
\* and complete before the sleep between the steps, which completes before
\* the first command of step k+1; exactly stepCount - 1 sleeps occur, each
\* of durationMs / stepCount, and none after the last step.
C22_StepsThenSleeps ==
    (InFade /\ Stepped /\ Len(media_player_dicts) >= 1) =>
        /\ OrderedByStep
        /\ FadeEnded => Len(slept) = fade_steps - 1

\* what the fade does guarantee: the order of C22 at every moment, and the
\* stepCount - 1 sleeps whenever the call returns
C22_HoldsWhenFadeReturns ==
    (InFade /\ Stepped /\ Len(media_player_dicts) >= 1) =>
        /\ OrderedByStep
        /\ pc = "done" => Len(slept) = fade_steps - 1

\* the commands a stepped fade dispatches to device i on a freshly created
\* record: those computed from the volume read at the first step, and none
\* for a device at its target or with the sentinel
FreshCommands(i) ==
    IF Fades(i)
    THEN ExpectedCommands(c0[i], Target(i), fade_steps)
    ELSE << >>

\* the commands sent to device i so far are the first of `commands`
SentPrefixOf(i, commands) ==
    /\ Len(cmds[i]) <= Len(commands)
    /\ \A k \in 1..Len(cmds[i]) : cmds[i][k] = commands[k]

\* C24: the volumes a fade dispatches are a function of that call's inputs
\* (each device's volume at the first step, its target, the duration): a
\* second call on the same device records dispatches exactly the commands
\* it would dispatch on freshly created records, and never a volume of the
\* step list the first call computed.
C24_SecondFadeIgnoresFirst ==
    (reused /\ InFade /\ Stepped) =>
        \A i \in Devices : c0[i] # NoRead => SentPrefixOf(i, FreshCommands(i))

\* what the fade does guarantee: a device that fades in the second call has
\* its step list computed anew from that call's inputs
C24_FadingDeviceRecomputed ==
    (reused /\ InFade /\ Stepped) =>
        \A i \in Devices : Fades(i) => SentPrefixOf(i, FreshCommands(i))

(***************************************************************************)
(* ffmpeg_convert_from_file called on its own, for any input path.         *)
(***************************************************************************)
\* the paths the function is called with: an mp3 file, a file of another
\* type, and an mp3 file with ".mp3" twice in its name
InputPaths ==
    { FullPath(<<"scratch">>, <<"x", ".", "mp3">>),
      FullPath(<<"scratch">>, <<"x", ".", "wav">>),
      FullPath(<<"scratch">>, <<"a", ".", "mp3", ".", "mp3">>) }

\* files that may stand in the folder before the call
OtherFiles ==
    { FullPath(<<"scratch">>, <<"x", ".", "wav">>),
      FullPath(<<"scratch">>, <<"x", "_converted", ".", "mp3">>) }

\* lines 580-603: the test of the input file and the output path
FileCall ==
    /\ file_call.pc = "call"
    /\ IF ~Exists(files, file_call.file_path)
       THEN file_call' = [file_call EXCEPT !.ret = False, !.pc = "done"]
       ELSE IF ~OutputPath(file_call.file_path, file_call.ffmpeg_args).bound
       THEN file_call' = [file_call EXCEPT !.exc = "UnboundLocalError",
                                           !.pc = "raised"]
       ELSE file_call' =
              [file_call EXCEPT
                 !.converted_file_path =
                     ConvertedFilePath(file_call.file_path,
                                       file_call.ffmpeg_args),
                 !.pc = "delete"]
    /\ UNCHANGED <<envVars, pc, sleeps, waitVars, fadeVars, files, conv, pureVars>>

\* lines 605-607: `if os.path.exists(converted_file_path): os.remove(...)`
FileDelete ==
    /\ file_call.pc = "delete"
    /\ files' = IF Exists(files, file_call.converted_file_path)
                THEN RemoveFile(files, file_call.converted_file_path)
                ELSE files
    /\ file_call' = [file_call EXCEPT !.pc = "popen"]
    /\ UNCHANGED <<envVars, pc, sleeps, waitVars, fadeVars, conv, pureVars>>

\* lines 609-640: the FFmpeg process, the rename and the return
FilePopen ==
    /\ file_call.pc = "popen"
    /\ \E popen \in PopenOutcomes, move \in MoveOutcomes :
         LET r == ConvertFromFile(file_call.fs, file_call.file_path,
                                  file_call.ffmpeg_args, popen, move)
         IN  /\ files' = r.fs
             /\ file_call' =
                  [file_call EXCEPT
                     !.ret = r.value,
                     !.exit = ProcessExit(file_call.fs, file_call.file_path,
                                          file_call.ffmpeg_args, popen),
                     !.pc = "done"]
    /\ UNCHANGED <<envVars, pc, sleeps, waitVars, fadeVars, conv, pureVars>>

InitFile ==
    /\ hass_states = [e \in Entities |-> Absent]
    /\ media_player_dicts = << >>
    /\ pc = "idle"
    /\ sleeps = 0
    /\ WaitIdle
    /\ FadeIdle
    /\ conv = [c \in ConvCalls |-> IdleCall]
    /\ PureIdle
    /\ \E file_path \in InputPaths, args \in ArgStrings,
          exists \in BOOLEAN, others \in SUBSET OtherFiles :
         /\ files = [q \in others \cup (IF exists THEN {file_path} ELSE {}) |->
                        IF q = file_path /\ exists
                        THEN Encoded(AudioSegment(1))
                        ELSE Partial(None)]
         /\ file_call = [pc |-> "call", file_path |-> file_path,
                         ffmpeg_args |-> args, converted_file_path |-> << >>,
                         fs |-> files, ret |-> False, exit |-> "none",
                         exc |-> "none"]

NextFile ==
    \/ FileCall
    \/ FileDelete
    \/ FilePopen

SpecFile == InitFile /\ [][NextFile]_vars

(***************************************************************************)
(* Properties of ffmpeg_convert_from_file (checked under SpecFile).        *)
(***************************************************************************)
\* the format a conversion spec asks for: the token after the first `-f`,
\* "" when there is none or when it is mp3
RequestedFormat(args) ==
    LET f == FirstF(args.tokens)
    IN  IF f = 0 \/ f + 1 > Len(args.tokens) \/ args.tokens[f + 1] = "mp3"
        THEN ""
        ELSE args.tokens[f + 1]

\* a path without its extension, and its extension
Stem(path) == SubSeq(path, 1, Len(path) - 2)

Extension(path) == path[Len(path)]

\* the output path the input path and the conversion spec call for: the
\* extension swapped for the requested format, or `_converted` before the
\* extension when no format is requested or the swap gives the input path
ExpectedOutput(path, args) ==
    IF RequestedFormat(args) \notin {"", Extension(path)}
    THEN Stem(path) \o <<".", RequestedFormat(args)>>
    ELSE Stem(path) \o <<"_converted", ".", Extension(path)>>

\* the call was made on an input file that exists
InputExists ==
    /\ file_call.pc # "idle"
    /\ Exists(file_call.fs, file_call.file_path)

\* the call has determined the output path it passes to FFmpeg
HasOutputPath == file_call.pc \in {"delete", "popen", "done"}

\* C23: for every existing input path and conversion spec, the output path
\* passed to the transcoder differs from the input path, so deleting the
\* output path before the transcoder runs never deletes the input file:
\* with a `-f <ext>` token (ext other than mp3) it is the input path with
\* its extension swapped to <ext>, otherwise it is the input path with
\* `_converted` before the extension.
C23_OutputPathIsNotInput ==
    InputExists =>
        /\ file_call.pc # "raised"
        /\ HasOutputPath =>
              /\ file_call.converted_file_path # file_call.file_path
              /\ file_call.converted_file_path
                    = ExpectedOutput(file_call.file_path, file_call.ffmpeg_args)
        /\ file_call.pc = "popen" => Exists(files, file_call.file_path)

\* what the function does guarantee: the output path of C23 whenever it
\* passes one to the transcoder for an input path that ends in ".mp3" and
\* has no other ".mp3" in it
C23_HoldsForMp3Input ==
    (/\ InputExists
     /\ HasOutputPath
     /\ file_call.file_path = FullPath(<<"scratch">>, <<"x", ".", "mp3">>)) =>
        /\ file_call.converted_file_path # file_call.file_path
        /\ file_call.converted_file_path
              = ExpectedOutput(file_call.file_path, file_call.ffmpeg_args)
        /\ file_call.pc = "popen" => Exists(files, file_call.file_path)

(***************************************************************************)
(* Further properties of parse_message (checked under SpecParse).          *)
(***************************************************************************)
\* the text holds none of the recognized keys written as a quoted key
NoQuotedKey(text) == \A i \in 1..Len(text) : text[i] # QuotedKey

\* the text is neither empty nor "None" once its niqqud is removed
NonEmptyText(text) == RemoveNiqqud(text) \notin {<< >>, <<"None">>}

\* C25: parse_message attempts the structured decode only when the text
\* contains one of the keys type, tts, chime, delay written as a quoted
\* key; a non-empty text with none of them is taken as plain text and
\* gives exactly one tts segment whose message is the text, even if the
\* text would decode to a list of maps.
C25_NoQuotedKeyIsPlainText ==
    (/\ parse.pass = 1
     /\ NonEmptyText(parse.message.text)
     /\ NoQuotedKey(parse.message.text)) =>
        /\ parse.pc # "raised"
        /\ parse.pc = "final" => Len(parse.segments) = 1
        /\ parse.pc = "done" =>
              /\ Len(parse.final_segments) = 1
              /\ ItemsOf(parse.final_segments[1])
                    = FallbackSegment(RemoveNiqqud(parse.message.text))

\* what parse_message does guarantee: a text with no quoted key that does
\* not decode to a list is taken as plain text
C25_PlainTextWhenNotAList ==
    (/\ parse.pass = 1
     /\ NonEmptyText(parse.message.text)
     /\ NoQuotedKey(parse.message.text)
     /\ parse.message.yaml.t # "list") =>
        /\ parse.pc # "raised"
        /\ parse.pc = "done" =>
              /\ Len(parse.final_segments) = 1
              /\ ItemsOf(parse.final_segments[1])
                    = FallbackSegment(RemoveNiqqud(parse.message.text))

(***************************************************************************)
(* async_change_speed_of_audiosegment and                                  *)
(* async_change_pitch_of_audiosegment, up to the conversion spec they pass *)
(* to the transcoder invoker.  Tempos are in percent, as in the stages.    *)
(***************************************************************************)
MaxPitch == 24

\* 2 ** (k / 12) for k = 0..11, to the nearest percent
SemitoneRatios == <<100, 106, 112, 119, 126, 133, 141, 150, 159, 168, 178, 189>>

\* tempo_adjustment = 1 / 2 ** (pitch / 12), to the percent: exact for the
\* whole octaves, and on the same side of every power of two as the exact
\* value for the other pitches
TempoAdjustment(pitch) ==
    LET octaves == (0 - pitch) \div 12
        ratio == SemitoneRatios[((0 - pitch) % 12) + 1]
    IN  IF octaves >= 0
        THEN ratio * 2^octaves
        ELSE ratio \div 2^(0 - octaves)

\* `if not audio_segment or speed == 100 or speed < 1 or speed > 500`
SpeedUnchanged(audio, speed) ==
    ~audio \/ speed = 100 \/ speed < 1 \/ speed > 500

\* `if not audio_segment ... elif pitch == 0.0`
PitchUnchanged(audio, pitch) == ~audio \/ pitch = 0

\* async_change_speed_of_audiosegment, up to the call of
\* add_atempo_values_to_ffmpeg_args_string(tempo)
SpeedCall ==
    /\ atempo.pc = "speed"
    /\ IF SpeedUnchanged(atempo.audio, atempo.speed)
       THEN atempo' = [atempo EXCEPT !.pc = "returned"]
       ELSE atempo' = [atempo EXCEPT !.tempo = atempo.speed,
                                     !.given = FALSE,
                                     !.pc = "call"]
    /\ UNCHANGED <<envVars, pc, sleeps, waitVars, fadeVars, convVars, mix, parse>>

\* async_change_pitch_of_audiosegment, up to the call of
\* add_atempo_values_to_ffmpeg_args_string(tempo_adjustment, "-af asetrate=...")
PitchCall ==
    /\ atempo.pc = "pitch"
    /\ IF PitchUnchanged(atempo.audio, atempo.pitch)
       THEN atempo' = [atempo EXCEPT !.pc = "returned"]
       ELSE atempo' = [atempo EXCEPT !.tempo = TempoAdjustment(atempo.pitch),
                                     !.given = TRUE,
                                     !.pc = "call"]
    /\ UNCHANGED <<envVars, pc, sleeps, waitVars, fadeVars, convVars, mix, parse>>

InitSpeed ==
    /\ hass_states = [e \in Entities |-> Absent]
    /\ media_player_dicts = << >>
    /\ pc = "idle"
    /\ sleeps = 0
    /\ WaitIdle
    /\ FadeIdle
    /\ ConvIdle
    /\ mix = [pc |-> "idle"]
    /\ parse = [pc |-> "idle"]
    /\ \E audio \in BOOLEAN :
         \/ \E speed \in 0..(MaxTempoPercent + 1) :
              atempo = [pc |-> "speed", audio |-> audio, speed |-> speed,
                        pitch |-> 0, tempo |-> 0, given |-> FALSE,
                        tempos |-> << >>, remaining |-> 0, out |-> << >>]
         \/ \E pitch \in (0 - MaxPitch)..MaxPitch :
              atempo = [pc |-> "pitch", audio |-> audio, speed |-> 100,
                        pitch |-> pitch, tempo |-> 0, given |-> FALSE,
                        tempos |-> << >>, remaining |-> 0, out |-> << >>]

NextSpeed ==
    \/ SpeedCall
    \/ PitchCall
    \/ AtempoBranch
    \/ AtempoIterate
    \/ AtempoEmit

SpecSpeed == InitSpeed /\ [][NextSpeed]_vars

(***************************************************************************)
(* Properties of the speed and pitch changes (checked under SpecSpeed).    *)
(***************************************************************************)
\* the tempo stages of the conversion spec that has been built
Stages == {atempo.out[i].value : i \in 1..Len(atempo.out)}

\* C26: every tempo stage that the speed change and the pitch change put
\* into a conversion spec lies in the transcoder's valid range [0.5, 2.0],
\* for every accepted speed (1 to 500 percent) and every pitch shift other
\* than 0.
C26_StagesWithinValidRange ==
    atempo.pc = "done" =>
        /\ Stages # {}
        /\ \A stage \in Stages : Half <= stage /\ stage <= 2 * 100

\* what the two functions do guarantee: no stage is below 0.5, and none is
\* above 2.0 when the tempo asked for is at most 2.0 (a speed of at most
\* 200 percent, a pitch of at least -12 semitones)
C26_WithinRangeUpToDouble ==
    atempo.pc = "done" =>
        /\ Stages # {}
        /\ \A stage \in Stages : Half <= stage
        /\ (atempo.speed <= 2 * 100 /\ atempo.pitch >= 0 - 12) =>
              \A stage \in Stages : stage <= 2 * 100

(***************************************************************************)
(* Further properties of combine_audio (checked under SpecMix).            *)
(***************************************************************************)
\* the places of the result where millisecond j of audio_2 is heard
PlacesOf(j) == {i \in 1..Len(mix.ret_val) : <<"b", j>> \in mix.ret_val[i]}

\* an overlay of two segments has returned
Overlaid ==
    /\ mix.pc = "done"
    /\ mix.audio_1 # NoAudio /\ mix.audio_2 # NoAudio
    /\ mix.offset < 0

\* C27: combine_audio(a, b, -d) loses no part of b for any d > 0, also for
\* d > len(a): every millisecond of b is in the result exactly once, mixed
\* onto a or appended after it, so the result is at least as long as b
\* and, when b is longer than a, the part of b between len(a) and d is
\* there.
C27_OverlayLosesNothing ==
    Overlaid =>
        /\ \A j \in 1..Len(mix.audio_2) : Cardinality(PlacesOf(j)) = 1
        /\ Len(mix.ret_val) >= Len(mix.audio_2)

\* what overlay does guarantee: every millisecond of b is in the result at
\* most once, and exactly once unless it lies between len(a) and d
C27_LosesOnlyBetweenEndAndOverlay ==
    Overlaid =>
        \A j \in 1..Len(mix.audio_2) :
            Cardinality(PlacesOf(j)) =
                IF Len(mix.audio_1) < j /\ j <= 0 - mix.offset THEN 0 ELSE 1

(***************************************************************************)
(* The degenerate calls of the two waiters (checked under SpecWait).       *)
(***************************************************************************)
\* device i of the list is in the registry and reports a volume other than
\* the target of async_wait_until_media_player_volume_level
OffTarget(i) ==
    LET e == media_player_dicts[i].entity_id
    IN  /\ hass_states[e].present
        /\ Round3(hass_states[e].volume_level) # Round3(condition.target_volume)

\* no device of the list is in the registry (so also: the list is empty)
NoneRegistered ==
    \A i \in 1..Len(media_player_dicts) :
        ~hass_states[media_player_dicts[i].entity_id].present

\* _async_wait_until_media_players with an empty list or no budget: False,
\* with no predicate evaluated and no sleep
DegenerateWaitIsFalse ==
    (IsWaitUntil /\ (Len(media_player_dicts) = 0 \/ timeout_arg <= 0)) =>
        /\ evaluated = {} /\ sleeps = 0 /\ rounds = 0
        /\ pc = "done" => ret = FALSE

=============================================================================
